---- MODULE Spec2Model ----
(***************************************************************************)
(* Charms Wallet JS: the transaction builder (TransactionBuilder) and the  *)
(* two signers (TransactionSigner, AddressWallet) as a state machine       *)
(* (Spec), and the key, mnemonic and address functions of CharmsWallet     *)
(* (WalletSpec).                                                           *)
(*                                                                         *)
(* A state is the last public call (its operation, its parameters, its     *)
(* outcome) together with the PSBT the caller holds from the last          *)
(* successful build, the configuration of a CharmsWallet instance and the  *)
(* call of its deriveTaprootKeys that waits at its await (InstanceSpec).   *)
(* Every action is one whole public method, or the part of an async method *)
(* between two awaits.                                                     *)
(*                                                                         *)
(* Data conventions:                                                       *)
(*   - an optional JavaScript value is a sequence: <<>> is undefined,      *)
(*     <<v>> is the value v;                                               *)
(*   - a hex string is a sequence of digit values 0..15, the value 16      *)
(*     standing for a character that is not a hex digit;                   *)
(*   - an address is [prefix, head, tail]: the first four characters (a    *)
(*     string), the characters 5..32 and the characters after the 32nd     *)
(*     (the builder reads only the first 32 characters of an address);     *)
(*     the address functions of CharmsWallet take and return the whole     *)
(*     text, a sequence of characters;                                     *)
(*   - a number too large for a machine integer (a mining nonce) is        *)
(*     [m, e], the value m * 16^e.                                         *)
(***************************************************************************)
EXTENDS Integers, Sequences, FiniteSets, TLC

VARIABLES call, held, config, pending

vars == <<call, held, config, pending>>

(***************************************************************************)
(* Program constants (TRANSACTION_CONSTANTS) and the estimator's weights.  *)
(***************************************************************************)
MIN_FEE_RATE == 1
DEFAULT_FEE_RATE == 10
MAX_FEE_RATE == 1000
DUST_THRESHOLD == 546
MIN_UTXO_AMOUNT == 1000
MAX_OP_RETURN_SIZE == 80
BASE_SIZE == 10
INPUT_SIZE == 57
OUTPUT_SIZE == 43
HASH_PREFIX_CHARS == 32
NONCE_HEX_CHARS == 8
DEFAULT_NETWORK == "testnet"

(***************************************************************************)
(* Bounds of the model.                                                    *)
(***************************************************************************)
MaxUtxos == 2
MaxOutputs == 2
\* Address indices run from 0 to MaxIndex.
MaxIndex == 2

(***************************************************************************)
(* Generic helpers.                                                        *)
(***************************************************************************)
None == <<>>
Some(v) == <<v>>
IsSome(o) == Len(o) > 0
Val(o) == o[1]

RECURSIVE SumAmounts(_)
SumAmounts(s) == IF Len(s) = 0 THEN 0 ELSE s[1].amount + SumAmounts(Tail(s))

SeqsUpTo(S, n) == UNION {[1..k -> S] : k \in 0..n}

Zeros(n) == [i \in 1..n |-> 0]

(***************************************************************************)
(* Errors and outcomes of a build.                                         *)
(***************************************************************************)
NoTx == [inputs |-> <<>>, outputs |-> <<>>]

Err(kind, msg) == [ok |-> FALSE, kind |-> kind, msg |-> msg, tx |-> NoTx,
                   feeComputed |-> FALSE, fee |-> 0, change |-> 0, opReturn |-> <<>>]

Pass == [ok |-> TRUE, kind |-> "", msg |-> "", tx |-> NoTx,
         feeComputed |-> FALSE, fee |-> 0, change |-> 0, opReturn |-> <<>>]

ValidationError(msg) == Err("ValidationError", msg)
TransactionError(msg) == Err("TransactionError", msg)

(***************************************************************************)
(* Library calls the builder makes (@scure/base, @scure/btc-signer), by    *)
(* their documented behaviour at the call site.                            *)
(***************************************************************************)
\* hex.decode: throws on an odd number of characters or a non-hex character.
HexDecodable(h) == Len(h) % 2 = 0 /\ \A i \in 1..Len(h) : h[i] < 16

\* hex.decode: the bytes of a decodable hex string, two digits per byte.
HexDecode(h) == [i \in 1..(Len(h) \div 2) |-> 16 * h[2 * i - 1] + h[2 * i]]

\* Number.prototype.toString(16) of a non-negative integer below 2^31.
RECURSIVE Digits16(_)
Digits16(m) == IF m < 16 THEN <<m>> ELSE Digits16(m \div 16) \o <<m % 16>>

\* nonce.toString(16) for the number m * 16^e; a minus sign is not a hex digit.
ToString16(n) ==
    IF n.m = 0 THEN <<0>>
    ELSE IF n.m < 0 THEN <<16>> \o Digits16(0 - n.m) \o Zeros(n.e)
    ELSE Digits16(n.m) \o Zeros(n.e)

\* String.prototype.padStart(width, '0'): pads, never truncates.
PadStart(s, width) == IF Len(s) >= width THEN s ELSE Zeros(width - Len(s)) \o s

\* String.prototype.substring(0, n).
Substring0(s, n) == SubSeq(s, 1, IF Len(s) < n THEN Len(s) ELSE n)

Chars(c, n) == [i \in 1..n |-> c]

\* new TextEncoder().encode(address).slice(0, 32): the character codes of the
\* first 32 characters of an address [prefix, head, tail].
AsciiChars ==
    <<"0", "1", "2", "3", "4", "5", "6", "7", "8", "9", "a", "b", "c", "d", "e",
      "f", "g", "h", "i", "j", "k", "l", "m", "n", "o", "p", "q", "r", "s", "t",
      "u", "v", "w", "x", "y", "z">>

Ascii(c) ==
    LET i == CHOOSE k \in 1..Len(AsciiChars) : AsciiChars[k] = c
    IN IF i <= 10 THEN 47 + i ELSE 86 + i

PrefixChars(prefix) ==
    CASE prefix = "tb1p" -> <<"t", "b", "1", "p">>
      [] prefix = "bc1p" -> <<"b", "c", "1", "p">>
      [] prefix = "tb1q" -> <<"t", "b", "1", "q">>
      [] prefix = "bc1q" -> <<"b", "c", "1", "q">>
      [] OTHER -> <<>>

AsciiBytes(address) ==
    LET text == PrefixChars(address.prefix) \o address.head
    IN [i \in 1..32 |-> IF i <= Len(text) THEN Ascii(text[i]) ELSE 0]

\* The first 32 characters of an address, read as a 32-byte x-only key, for
\* which lift_x fails: "tb1p"/"bc1p" followed by 28 times "q" is not the x
\* coordinate of a curve point, nor are the first 32 characters of
\* tb1p5cyxnuxmeuwuvkwfem96lqzszd02n6xdcjrs20cac6yqjjwudpxqp3mvzv; "tb1p"
\* followed by "p"s or "z"s is, and so is tb1pgp80xvc97ssyphukzd5w6gmz2z45.
OffCurve ==
    {<<"tb1p", Chars("q", 28)>>, <<"bc1p", Chars("q", 28)>>,
     <<"tb1p",
       <<"5", "c", "y", "x", "n", "u", "x", "m", "e", "u", "w", "u", "v",
       "k", "w", "f", "e", "m", "9", "6", "l", "q", "z", "s", "z",
       "d", "0", "2">>>>}

\* btc.p2tr(key).script: OP_1 and the tweaked output key of the internal key.
P2trScript(internalKey) == [type |-> "p2tr", key |-> internalKey, data |-> <<>>]

(***************************************************************************)
(* TransactionBuilder: private helpers.                                    *)
(***************************************************************************)
Falsy(address) == address.prefix = ""

\* createScriptPubKey: the script is made from the ASCII bytes of the address
\* text (its first 32 characters), not from the key the address encodes.
\* btc.p2tr throws for a key that is no curve point; btc.p2wpkh and btc.p2pkh
\* take a public key and throw for the 20 bytes given here; every throw is
\* rethrown as ValidationError.
createScriptPubKey(address) ==
    IF address.prefix \in {"bc1p", "tb1p"}
    THEN IF <<address.prefix, address.head>> \in OffCurve
         THEN [ok |-> FALSE, script |-> P2trScript(<<>>)]
         ELSE [ok |-> TRUE,
               script |-> P2trScript(AsciiBytes(address))]
    ELSE [ok |-> FALSE, script |-> P2trScript(<<>>)]

\* Mutant: the slot reserved for the change output is not counted.
estimateTransactionSizeNoChangeSlot(inputs, outputs) ==
    BASE_SIZE + inputs * INPUT_SIZE + (outputs - 1) * OUTPUT_SIZE

estimateTransactionSize(inputs, outputs) ==
    BASE_SIZE + inputs * INPUT_SIZE + outputs * OUTPUT_SIZE

\* getNetworkConfig(network): throws ValidationError for an unknown network.
getNetworkConfigOk(network) == network \in {"mainnet", "testnet", "testnet4"}

\* createMiningOpReturn: hash prefix, nonce in hex padded to 8, size check,
\* hex.decode.  [ok, kind, data]: kind "TransactionError" is the size check,
\* kind "Error" is hex.decode throwing.
\* Mutant: the boundary of exactly 80 bytes is rejected too.
OpReturnTooLargeGe(combinedHex) == Len(combinedHex) >= 2 * MAX_OP_RETURN_SIZE

OpReturnTooLarge(combinedHex) == Len(combinedHex) > 2 * MAX_OP_RETURN_SIZE

CombinedHex(miningData) ==
    Substring0(miningData.hash, HASH_PREFIX_CHARS)
        \o PadStart(ToString16(Val(miningData.nonce)), NONCE_HEX_CHARS)

createMiningOpReturn(miningData) ==
    LET combinedHex == CombinedHex(miningData) IN
    IF OpReturnTooLarge(combinedHex)
    THEN [ok |-> FALSE, kind |-> "TransactionError", data |-> <<>>]
    ELSE IF ~HexDecodable(combinedHex)
    THEN [ok |-> FALSE, kind |-> "Error", data |-> <<>>]
    ELSE [ok |-> TRUE, kind |-> "", data |-> HexDecode(combinedHex)]

\* The UTXO shape check shared by both validators:
\* !utxo.txid || typeof utxo.vout !== 'number' || !utxo.amount || !utxo.address
InvalidUtxoFormat(utxo) ==
    utxo.txid = "" \/ ~IsSome(utxo.vout) \/ utxo.amount = 0 \/ Falsy(utxo.address)

\* feeRate && (feeRate < MIN_FEE_RATE || feeRate > MAX_FEE_RATE): undefined
\* and 0 are falsy and skip the range check.
FeeRateRejected(feeRate) ==
    IsSome(feeRate) /\ Val(feeRate) # 0
        /\ (Val(feeRate) < MIN_FEE_RATE \/ Val(feeRate) > MAX_FEE_RATE)

\* feeRate = TRANSACTION_CONSTANTS.DEFAULT_FEE_RATE applies to undefined only.
EffectiveFeeRate(feeRate) == IF IsSome(feeRate) THEN Val(feeRate) ELSE DEFAULT_FEE_RATE

\* new TransactionBuilder(network = DEFAULT_NETWORK): the default applies to
\* undefined only.
TransactionBuilder(network) ==
    [network |-> IF IsSome(network) THEN Val(network) ELSE DEFAULT_NETWORK]

\* network = this.network applies to undefined only.
EffectiveNetwork(this, network) ==
    IF IsSome(network) THEN Val(network) ELSE this.network

(***************************************************************************)
(* TransactionBuilder.validateMiningParams / validateSimpleParams: the     *)
(* message of the ValidationError thrown, "" when nothing is thrown.       *)
(***************************************************************************)
validateMiningParams(params) ==
    IF InvalidUtxoFormat(params.utxo) THEN "Invalid UTXO format"
    ELSE IF params.utxo.amount < MIN_UTXO_AMOUNT THEN "UTXO amount below minimum"
    ELSE IF Len(params.miningData.hash) = 0 \/ ~IsSome(params.miningData.nonce)
         THEN "Invalid mining data format"
    ELSE IF Len(params.miningData.hash) < HASH_PREFIX_CHARS THEN "Mining hash too short"
    ELSE IF Val(params.miningData.nonce).m < 0 THEN "Mining nonce must be non-negative"
    ELSE IF Falsy(params.changeAddress) THEN "Invalid change address"
    ELSE IF FeeRateRejected(params.feeRate) THEN "Fee rate outside valid range"
    ELSE ""

\* Mutant: the dust check on a caller's output is left out.
OutputDustUnchecked(amount) == FALSE

\* output.amount < TRANSACTION_CONSTANTS.DUST_THRESHOLD
OutputBelowDust(amount) == amount < DUST_THRESHOLD

\* for (const output of outputs): the first output that fails decides.
RECURSIVE OutputsFailure(_)
OutputsFailure(outputs) ==
    IF Len(outputs) = 0 THEN ""
    ELSE IF Falsy(outputs[1].address) \/ outputs[1].amount <= 0 THEN "Invalid output format"
    ELSE IF OutputBelowDust(outputs[1].amount) THEN "Output amount below dust threshold"
    ELSE OutputsFailure(Tail(outputs))

validateSimpleParams(params) ==
    IF Len(params.utxos) = 0 THEN "At least one UTXO is required"
    ELSE IF \E i \in 1..Len(params.utxos) : InvalidUtxoFormat(params.utxos[i])
         THEN "Invalid UTXO format"
    ELSE IF Len(params.outputs) = 0 THEN "At least one output is required"
    ELSE IF OutputsFailure(params.outputs) # "" THEN OutputsFailure(params.outputs)
    ELSE IF Falsy(params.changeAddress) THEN "Invalid change address"
    ELSE IF FeeRateRejected(params.feeRate) THEN "Fee rate outside valid range"
    ELSE ""

(***************************************************************************)
(* Building the transaction object.                                        *)
(***************************************************************************)
\* hex.decode(utxo.txid): the id "zz" stands for a txid that is not hex.
TxidDecodable(txid) == txid # "zz"

\* The input added for a UTXO: its id (byte-reversed), its index and the
\* witnessUtxo {script, amount}.
TxInput(utxo) ==
    [txid |-> utxo.txid, index |-> Val(utxo.vout), hasWitnessUtxo |-> TRUE,
     witnessUtxo |-> [script |-> createScriptPubKey(utxo.address).script,
                      amount |-> utxo.amount],
     tapInternalKey |-> None]

\* The output added for {address, amount}.
TxOutput(address, amount) ==
    [script |-> createScriptPubKey(address).script, amount |-> amount]

\* btc.Script.encode([n, data]) for a number n in 17..127 and a byte string:
\* a number is written as a script number pushed as data (one length byte,
\* one value byte), never as an opcode; then the push of data, its length
\* in one byte below 76 and after the byte 76 (PUSHDATA1) from there on.
ScriptEncode(n, data) ==
    <<1, n>> \o (IF Len(data) < 76 THEN <<Len(data)>> ELSE <<76, Len(data)>>) \o data

\* {script: btc.Script.encode([btc.OP.RETURN, opReturnData]), amount: 0n}:
\* btc.OP.RETURN is the number 106, so the script starts 01 6a and is none
\* of the output scripts the library knows.
OpReturnOutput(data) ==
    [script |-> [type |-> "unknown", key |-> <<>>, data |-> ScriptEncode(106, data)],
     amount |-> 0]

\* tx.addOutput of new btc.Transaction() (no allowUnknownOutputs option):
\* throws 'Transaction/output: unknown output script type' for a script of
\* unknown type.
AddOutputThrows(output) == output.script.type = "unknown"

\* The "Add inputs" loop: what the first failing UTXO throws ("Error" from
\* hex.decode or tx.addInput, "ValidationError" from createScriptPubKey),
\* "" when every input is added.
RECURSIVE InputsFailure(_)
InputsFailure(utxos) ==
    IF Len(utxos) = 0 THEN ""
    ELSE IF ~TxidDecodable(utxos[1].txid) THEN "Error"
    ELSE IF ~createScriptPubKey(utxos[1].address).ok THEN "ValidationError"
    ELSE IF utxos[1].amount < 0 THEN "Error"
    ELSE InputsFailure(Tail(utxos))

\* The "Add outputs" loop: createScriptPubKey throwing for an output address.
OutputScriptsFail(outputs) ==
    \E i \in 1..Len(outputs) : ~createScriptPubKey(outputs[i].address).ok

\* Mutant: the catch clause rethrows every error as it is.
RethrowUnchanged(kind, what) ==
    IF kind = "ValidationError" THEN ValidationError("Failed to create script")
    ELSE Err(kind, what)

\* The catch clause of both builders: ValidationError and TransactionError
\* pass through, anything else becomes TransactionError("Failed to create").
Rethrow(kind, what) ==
    IF kind = "ValidationError" THEN ValidationError("Failed to create script")
    ELSE TransactionError(what)

(***************************************************************************)
(* TransactionBuilder.createMiningTransaction.                             *)
(***************************************************************************)
MiningFee(params) == EffectiveFeeRate(params.feeRate) * estimateTransactionSize(1, 2)

MiningChange(params) == params.utxo.amount - MiningFee(params)

ChangeBelowDust(changeAmount) == changeAmount < DUST_THRESHOLD

\* The outputs in the order of the two tx.addOutput calls.
MiningOutputs(data, params) ==
    <<OpReturnOutput(data), TxOutput(params.changeAddress, MiningChange(params))>>

\* The first tx.addOutput throws for the script OpReturnOutput has, so the
\* fee, the dust check and the change output that follow it in the code are
\* not reached by any call.
createMiningTransaction(this, params) ==
    LET opReturn == createMiningOpReturn(params.miningData)
        fee == MiningFee(params)
        changeAmount == MiningChange(params)
    IN
    IF validateMiningParams(params) # ""
    THEN ValidationError(validateMiningParams(params))
    ELSE IF ~getNetworkConfigOk(EffectiveNetwork(this, params.network))
    THEN ValidationError("Unsupported network")
    ELSE IF InputsFailure(<<params.utxo>>) # ""
    THEN Rethrow(InputsFailure(<<params.utxo>>), "Failed to create mining transaction")
    ELSE IF ~opReturn.ok /\ opReturn.kind = "TransactionError"
    THEN TransactionError("OP_RETURN data too large")
    ELSE IF ~opReturn.ok
    THEN Rethrow(opReturn.kind, "Failed to create mining transaction")
    ELSE IF AddOutputThrows(OpReturnOutput(opReturn.data))
    THEN [Rethrow("Error", "Failed to create mining transaction") EXCEPT
            !.opReturn = opReturn.data]
    ELSE IF ChangeBelowDust(changeAmount)
    THEN [TransactionError("Change amount below dust threshold") EXCEPT
            !.feeComputed = TRUE, !.fee = fee, !.change = changeAmount,
            !.opReturn = opReturn.data]
    ELSE IF ~createScriptPubKey(params.changeAddress).ok
    THEN [ValidationError("Failed to create script") EXCEPT
            !.feeComputed = TRUE, !.fee = fee, !.change = changeAmount,
            !.opReturn = opReturn.data]
    ELSE [Pass EXCEPT
            !.tx = [inputs |-> <<TxInput(params.utxo)>>,
                    outputs |-> MiningOutputs(opReturn.data, params)],
            !.feeComputed = TRUE, !.fee = fee, !.change = changeAmount,
            !.opReturn = opReturn.data]

(***************************************************************************)
(* TransactionBuilder.createSimpleTransaction.                             *)
(***************************************************************************)
SimpleFee(params) ==
    EffectiveFeeRate(params.feeRate)
        * estimateTransactionSize(Len(params.utxos), Len(params.outputs) + 1)

SimpleChange(params) ==
    SumAmounts(params.utxos) - SumAmounts(params.outputs) - SimpleFee(params)

\* if (changeAmount > TRANSACTION_CONSTANTS.DUST_THRESHOLD)
AddsChangeOutput(changeAmount) == changeAmount > DUST_THRESHOLD

\* Mutant: a shortfall smaller than the dust threshold is let through.
InsufficientFundsBeyondDust(changeAmount) ==
    ~AddsChangeOutput(changeAmount) /\ changeAmount < 0 - DUST_THRESHOLD

\* else if (changeAmount < 0)
InsufficientFunds(changeAmount) == ~AddsChangeOutput(changeAmount) /\ changeAmount < 0

CallerOutputs(outputs) == [i \in 1..Len(outputs) |-> TxOutput(outputs[i].address, outputs[i].amount)]

createSimpleTransaction(this, params) ==
    LET fee == SimpleFee(params)
        changeAmount == SimpleChange(params)
        inputs == [i \in 1..Len(params.utxos) |-> TxInput(params.utxos[i])]
        outputs == CallerOutputs(params.outputs)
    IN
    IF validateSimpleParams(params) # ""
    THEN ValidationError(validateSimpleParams(params))
    ELSE IF ~getNetworkConfigOk(EffectiveNetwork(this, params.network))
    THEN ValidationError("Unsupported network")
    ELSE IF InputsFailure(params.utxos) # ""
    THEN Rethrow(InputsFailure(params.utxos), "Failed to create simple transaction")
    ELSE IF OutputScriptsFail(params.outputs)
    THEN ValidationError("Failed to create script")
    ELSE IF AddsChangeOutput(changeAmount)
    THEN IF ~createScriptPubKey(params.changeAddress).ok
         THEN [ValidationError("Failed to create script") EXCEPT
                 !.feeComputed = TRUE, !.fee = fee, !.change = changeAmount]
         ELSE [Pass EXCEPT
                 !.tx = [inputs |-> inputs,
                         outputs |-> Append(outputs,
                                            TxOutput(params.changeAddress, changeAmount))],
                 !.feeComputed = TRUE, !.fee = fee, !.change = changeAmount]
    ELSE IF InsufficientFunds(changeAmount)
    THEN [TransactionError("Insufficient funds for transaction") EXCEPT
            !.feeComputed = TRUE, !.fee = fee, !.change = changeAmount]
    ELSE [Pass EXCEPT
            !.tx = [inputs |-> inputs, outputs |-> outputs],
            !.feeComputed = TRUE, !.fee = fee, !.change = changeAmount]

(***************************************************************************)
(* The local transaction object of a build (const tx = new                 *)
(* btc.Transaction()) when the call returns or throws: the number of       *)
(* inputs and of outputs tx.addInput and tx.addOutput have added to it.    *)
(***************************************************************************)
Added(inputs, outputs) == [inputs |-> inputs, outputs |-> outputs]

\* The "Add inputs" loop: the number of UTXOs added before the first one
\* that makes the loop throw, all of them when none does.
RECURSIVE InputsAdded(_)
InputsAdded(utxos) ==
    IF InputsFailure(utxos) = "" THEN Len(utxos)
    ELSE IF InputsFailure(<<utxos[1]>>) # "" THEN 0
    ELSE 1 + InputsAdded(Tail(utxos))

\* The "Add outputs" loop, likewise.
RECURSIVE OutputsAdded(_)
OutputsAdded(outputs) ==
    IF Len(outputs) = 0 \/ ~createScriptPubKey(outputs[1].address).ok THEN 0
    ELSE 1 + OutputsAdded(Tail(outputs))

\* createMiningTransaction: validateMiningParams, getNetworkConfig,
\* tx.addInput, createMiningOpReturn, tx.addOutput (OP_RETURN), the fee and
\* the dust check, tx.addOutput (change).
MiningTxAdded(this, params) ==
    IF \/ validateMiningParams(params) # ""
       \/ ~getNetworkConfigOk(EffectiveNetwork(this, params.network))
       \/ InputsFailure(<<params.utxo>>) # ""
    THEN Added(0, 0)
    ELSE IF \/ ~createMiningOpReturn(params.miningData).ok
            \/ AddOutputThrows(OpReturnOutput(
                   createMiningOpReturn(params.miningData).data))
    THEN Added(1, 0)
    ELSE IF \/ ChangeBelowDust(MiningChange(params))
            \/ ~createScriptPubKey(params.changeAddress).ok
    THEN Added(1, 1)
    ELSE Added(1, 2)

\* createSimpleTransaction: validateSimpleParams, getNetworkConfig, the two
\* loops, the fee, then the change output or the insufficient-funds check.
SimpleTxAdded(this, params) ==
    IF \/ validateSimpleParams(params) # ""
       \/ ~getNetworkConfigOk(EffectiveNetwork(this, params.network))
    THEN Added(0, 0)
    ELSE IF InputsFailure(params.utxos) # ""
    THEN Added(InputsAdded(params.utxos), 0)
    ELSE IF /\ ~OutputScriptsFail(params.outputs)
            /\ AddsChangeOutput(SimpleChange(params))
            /\ createScriptPubKey(params.changeAddress).ok
    THEN Added(Len(params.utxos), Len(params.outputs) + 1)
    ELSE Added(Len(params.utxos), OutputsAdded(params.outputs))

(***************************************************************************)
(* Keys and addresses: @scure/bip39, @scure/bip32 and btc.p2tr.            *)
(*                                                                         *)
(* A mnemonic is [id, words]: its text and its word count.  A byte string  *)
(* is a sequence of 0..255, an address text a sequence of characters.      *)
(* What the libraries compute (HD derivation over secp256k1, the Taproot   *)
(* tweak, bech32m) is tabulated for the mnemonics, indices and keys the    *)
(* model uses; the index-0 rows of M_ABOUT are the BIP86 test vector.      *)
(***************************************************************************)
Mnemonic(id, words) == [id |-> id, words |-> words]

M_ABOUT ==
    Mnemonic("abandon abandon abandon abandon abandon abandon abandon abandon abandon abandon abandon about", 12)

M_YELLOW ==
    Mnemonic("legal winner thank year wave sausage worth useful legal winner thank yellow", 12)

\* Twelve words of the word list whose checksum is wrong.
M_ABANDON ==
    Mnemonic("abandon abandon abandon abandon abandon abandon abandon abandon abandon abandon abandon abandon", 12)

\* validateMnemonic(mnemonic, wordlist) of @scure/bip39: every word is in the
\* word list, the word count is supported and the checksum is right.  It
\* returns false, and never throws, for anything else.
Bip39Valid(mnemonic) == mnemonic.id \in {M_ABOUT.id, M_YELLOW.id}

\* HDKey.fromMasterSeed(seed) and deriveChild of 86', 0', 0', 0, index: the
\* private key and the compressed public key of the address key.
AddressKeyTable ==
    {[mnemonic |-> M_ABOUT.id, index |-> 0,
      privateKey |->
        <<65, 244, 29, 105, 38, 13, 244, 207, 39, 120, 38, 169, 182, 90,
        55, 23, 228, 238, 221, 190, 237, 246, 55, 242, 18, 202, 9, 101,
        118, 71, 147, 97>>,
      publicKey |->
        <<3, 204, 138, 75, 198, 77, 137, 123, 221, 197, 251, 194, 246, 112,
        247, 168, 186, 11, 56, 103, 121, 16, 108, 241, 34, 60, 111, 197,
        215, 205, 111, 193, 21>>],
     [mnemonic |-> M_ABOUT.id, index |-> 1,
      privateKey |->
        <<134, 198, 138, 192, 237, 125, 248, 140, 189, 208, 138, 132, 124,
        109, 99, 159, 135, 209, 35, 77, 64, 80, 58, 191, 58, 193, 120, 239,
        125, 220, 5, 221>>,
      publicKey |->
        <<2, 131, 223, 232, 90, 49, 81, 210, 81, 114, 144, 218, 70, 31,
        226, 129, 85, 145, 239, 105, 242, 177, 138, 44, 230, 63, 1, 105,
        122, 139, 49, 49, 69>>],
     [mnemonic |-> M_ABOUT.id, index |-> 2,
      privateKey |->
        <<220, 227, 26, 228, 173, 97, 142, 156, 162, 147, 133, 137, 111,
        12, 162, 136, 144, 211, 155, 214, 1, 149, 132, 49, 29, 69, 35, 247,
        23, 120, 188, 140>>,
      publicKey |->
        <<3, 167, 48, 162, 60, 232, 180, 114, 72, 165, 221, 251, 50, 238,
        247, 82, 98, 217, 31, 11, 85, 176, 132, 221, 31, 240, 210, 249,
        224, 50, 224, 229, 51>>],
     [mnemonic |-> M_ABOUT.id, index |-> 3,
      privateKey |->
        <<25, 45, 103, 239, 158, 79, 176, 186, 229, 151, 127, 186, 247,
        194, 43, 71, 41, 55, 85, 79, 112, 55, 9, 149, 157, 226, 37, 4, 211,
        37, 245, 223>>,
      publicKey |->
        <<2, 6, 237, 67, 74, 224, 13, 142, 75, 76, 137, 221, 75, 175, 224,
        129, 250, 27, 188, 109, 176, 171, 241, 124, 96, 107, 26, 134, 92,
        165, 3, 9, 163>>],
     [mnemonic |-> M_YELLOW.id, index |-> 0,
      privateKey |->
        <<173, 251, 42, 136, 58, 143, 209, 66, 229, 92, 170, 215, 87, 207,
        31, 206, 109, 50, 66, 64, 210, 237, 63, 136, 196, 201, 114, 137,
        47, 119, 127, 211>>,
      publicKey |->
        <<2, 238, 87, 215, 152, 28, 132, 137, 190, 35, 206, 205, 201, 111,
        48, 89, 108, 112, 13, 127, 85, 9, 0, 41, 232, 169, 74, 236, 167,
        128, 163, 17, 112>>],
     [mnemonic |-> M_YELLOW.id, index |-> 1,
      privateKey |->
        <<198, 142, 102, 82, 221, 51, 25, 35, 58, 163, 19, 228, 96, 209,
        87, 75, 64, 164, 25, 248, 229, 140, 15, 119, 50, 148, 131, 3, 144,
        19, 206, 143>>,
      publicKey |->
        <<3, 156, 67, 228, 9, 125, 118, 222, 62, 212, 219, 81, 199, 168,
        26, 219, 29, 38, 210, 156, 211, 253, 254, 78, 178, 123, 18, 140,
        221, 126, 4, 203, 113>>],
     [mnemonic |-> M_YELLOW.id, index |-> 2,
      privateKey |->
        <<39, 78, 40, 206, 26, 110, 180, 246, 87, 187, 135, 71, 166, 87,
        53, 252, 201, 134, 126, 136, 39, 224, 106, 91, 158, 124, 150, 103,
        93, 46, 187, 86>>,
      publicKey |->
        <<2, 116, 229, 140, 117, 89, 59, 40, 155, 41, 71, 243, 12, 221, 91,
        59, 184, 233, 84, 134, 8, 90, 119, 242, 78, 157, 1, 248, 171, 29,
        89, 181, 86>>],
     [mnemonic |-> M_YELLOW.id, index |-> 3,
      privateKey |->
        <<139, 175, 174, 78, 208, 69, 7, 118, 212, 32, 176, 217, 204, 230,
        38, 137, 239, 32, 33, 98, 163, 12, 73, 118, 13, 111, 216, 168, 34,
        146, 214, 86>>,
      publicKey |->
        <<2, 116, 194, 88, 255, 13, 22, 11, 16, 249, 39, 228, 241, 15, 189,
        206, 240, 181, 162, 134, 160, 227, 180, 114, 153, 163, 137, 196,
        30, 199, 12, 49, 107>>],
     [mnemonic |-> M_ABANDON.id, index |-> 0,
      privateKey |->
        <<180, 152, 82, 144, 181, 229, 170, 220, 210, 54, 163, 164, 204,
        80, 130, 21, 52, 234, 55, 17, 18, 32, 157, 132, 58, 246, 121, 160,
        23, 55, 65, 195>>,
      publicKey |->
        <<3, 168, 38, 238, 252, 16, 15, 195, 237, 189, 81, 164, 255, 227,
        26, 168, 34, 21, 74, 130, 142, 212, 218, 21, 21, 217, 55, 9, 156,
        100, 161, 228, 239>>],
     [mnemonic |-> M_ABANDON.id, index |-> 1,
      privateKey |->
        <<139, 74, 23, 239, 95, 57, 60, 158, 75, 204, 135, 62, 121, 26,
        111, 9, 119, 161, 147, 138, 130, 175, 79, 135, 246, 139, 175, 237,
        172, 147, 28, 167>>,
      publicKey |->
        <<2, 187, 217, 224, 20, 121, 118, 120, 204, 98, 47, 53, 187, 158,
        152, 168, 207, 51, 108, 15, 174, 81, 47, 9, 153, 127, 213, 71, 72,
        69, 48, 239, 206>>],
     [mnemonic |-> M_ABANDON.id, index |-> 2,
      privateKey |->
        <<227, 202, 87, 122, 145, 37, 95, 51, 146, 255, 203, 158, 159, 220,
        221, 26, 114, 22, 219, 116, 125, 22, 144, 189, 168, 216, 201, 217,
        190, 203, 192, 223>>,
      publicKey |->
        <<3, 14, 101, 234, 10, 43, 47, 217, 39, 11, 78, 193, 32, 71, 55, 8,
        139, 160, 82, 144, 25, 101, 13, 168, 21, 71, 86, 47, 127, 54, 199,
        203, 154>>],
     [mnemonic |-> M_ABANDON.id, index |-> 3,
      privateKey |->
        <<214, 50, 127, 144, 247, 38, 64, 43, 176, 96, 242, 68, 161, 44,
        167, 148, 81, 22, 153, 86, 162, 231, 100, 168, 180, 171, 115, 84,
        214, 49, 15, 9>>,
      publicKey |->
        <<3, 140, 37, 155, 153, 211, 247, 74, 30, 4, 237, 78, 47, 76, 145,
        55, 79, 252, 142, 97, 175, 184, 137, 59, 140, 9, 126, 23, 120, 62,
        229, 111, 38>>]}

P2trTable ==
    {[key |->
        <<204, 138, 75, 198, 77, 137, 123, 221, 197, 251, 194, 246, 112,
        247, 168, 186, 11, 56, 103, 121, 16, 108, 241, 34, 60, 111, 197,
        215, 205, 111, 193, 21>>,
      onCurve |-> TRUE,
      data |->
        <<"5", "c", "y", "x", "n", "u", "x", "m", "e", "u", "w", "u", "v",
        "k", "w", "f", "e", "m", "9", "6", "l", "q", "z", "s", "z", "d",
        "0", "2", "n", "6", "x", "d", "c", "j", "r", "s", "2", "0", "c",
        "a", "c", "6", "y", "q", "j", "j", "w", "u", "d", "p", "x", "q">>,
      tb |-> <<"p", "3", "m", "v", "z", "v">>,
      bc |-> <<"k", "e", "d", "r", "c", "r">>],
     [key |->
        <<64, 245, 28, 104, 39, 12, 245, 206, 38, 121, 39, 168, 183, 91,
        54, 22, 229, 239, 220, 191, 236, 247, 54, 243, 19, 203, 8, 100,
        119, 70, 146, 96>>,
      onCurve |-> TRUE,
      data |->
        <<"f", "m", "x", "3", "k", "w", "w", "c", "h", "3", "c", "a", "c",
        "s", "0", "7", "h", "k", "g", "9", "k", "8", "3", "l", "m", "9",
        "w", "t", "h", "a", "4", "x", "7", "8", "f", "r", "w", "w", "g",
        "5", "m", "f", "7", "a", "n", "l", "0", "e", "k", "h", "j", "s">>,
      tb |-> <<"f", "n", "7", "e", "m", "4">>,
      bc |-> <<"7", "m", "g", "k", "p", "6">>],
     [key |->
        <<131, 223, 232, 90, 49, 81, 210, 81, 114, 144, 218, 70, 31, 226,
        129, 85, 145, 239, 105, 242, 177, 138, 44, 230, 63, 1, 105, 122,
        139, 49, 49, 69>>,
      onCurve |-> TRUE,
      data |->
        <<"4", "q", "h", "j", "n", "9", "z", "d", "v", "k", "u", "x", "4",
        "e", "4", "4", "u", "h", "x", "8", "t", "c", "5", "5", "a", "t",
        "t", "v", "t", "y", "u", "3", "5", "8", "k", "u", "t", "c", "q",
        "k", "u", "d", "y", "c", "c", "e", "l", "u", "0", "w", "a", "s">>,
      tb |-> <<"j", "p", "k", "d", "5", "c">>,
      bc |-> <<"9", "f", "q", "z", "w", "h">>],
     [key |->
        <<135, 199, 139, 193, 236, 124, 249, 141, 188, 209, 139, 133, 125,
        108, 98, 158, 134, 208, 34, 76, 65, 81, 59, 190, 59, 192, 121, 238,
        124, 221, 4, 220>>,
      onCurve |-> FALSE, data |-> <<>>, tb |-> <<>>, bc |-> <<>>],
     [key |->
        <<167, 48, 162, 60, 232, 180, 114, 72, 165, 221, 251, 50, 238, 247,
        82, 98, 217, 31, 11, 85, 176, 132, 221, 31, 240, 210, 249, 224, 50,
        224, 229, 51>>,
      onCurve |-> TRUE,
      data |->
        <<"0", "d", "0", "r", "h", "y", "y", "n", "q", "0", "a", "w", "a",
        "9", "m", "8", "c", "q", "r", "c", "r", "8", "f", "5", "n", "x",
        "q", "x", "3", "a", "w", "2", "9", "w", "4", "r", "u", "5", "u",
        "9", "m", "y", "3", "h", "0", "s", "f", "y", "g", "n", "z", "s">>,
      tb |-> <<"j", "7", "p", "f", "c", "g">>,
      bc |-> <<"9", "k", "h", "x", "z", "8">>],
     [key |->
        <<221, 226, 27, 229, 172, 96, 143, 157, 163, 146, 132, 136, 110,
        13, 163, 137, 145, 210, 154, 215, 0, 148, 133, 48, 28, 68, 34, 246,
        22, 121, 189, 141>>,
      onCurve |-> FALSE, data |-> <<>>, tb |-> <<>>, bc |-> <<>>],
     [key |->
        <<6, 237, 67, 74, 224, 13, 142, 75, 76, 137, 221, 75, 175, 224,
        129, 250, 27, 188, 109, 176, 171, 241, 124, 96, 107, 26, 134, 92,
        165, 3, 9, 163>>,
      onCurve |-> TRUE,
      data |->
        <<"y", "0", "v", "r", "y", "k", "8", "a", "q", "u", "s", "z", "6",
        "5", "y", "z", "u", "u", "d", "y", "p", "g", "g", "v", "s", "w",
        "z", "k", "c", "p", "w", "t", "a", "u", "8", "q", "0", "s", "j",
        "m", "0", "s", "t", "c", "t", "w", "u", "p", "0", "x", "l", "q">>,
      tb |-> <<"p", "7", "s", "s", "r", "v">>,
      bc |-> <<"k", "k", "x", "l", "e", "r">>],
     [key |->
        <<24, 44, 102, 238, 159, 78, 177, 187, 228, 150, 126, 187, 246,
        195, 42, 70, 40, 54, 84, 78, 113, 54, 8, 148, 156, 227, 36, 5, 210,
        36, 244, 222>>,
      onCurve |-> FALSE, data |-> <<>>, tb |-> <<>>, bc |-> <<>>],
     [key |->
        <<238, 87, 215, 152, 28, 132, 137, 190, 35, 206, 205, 201, 111, 48,
        89, 108, 112, 13, 127, 85, 9, 0, 41, 232, 169, 74, 236, 167, 128,
        163, 17, 112>>,
      onCurve |-> TRUE,
      data |->
        <<"g", "p", "8", "0", "x", "v", "c", "9", "7", "s", "s", "y", "p",
        "h", "u", "k", "z", "d", "5", "w", "6", "g", "m", "z", "2", "z",
        "4", "5", "d", "z", "a", "w", "l", "8", "s", "n", "3", "g", "6",
        "r", "9", "e", "9", "5", "l", "9", "0", "y", "v", "d", "f", "q">>,
      tb |-> <<"2", "d", "3", "3", "l", "d">>,
      bc |-> <<"a", "9", "8", "7", "9", "z">>],
     [key |->
        <<172, 250, 43, 137, 59, 142, 208, 67, 228, 93, 171, 214, 86, 206,
        30, 207, 108, 51, 67, 65, 211, 236, 62, 137, 197, 200, 115, 136,
        46, 118, 126, 210>>,
      onCurve |-> TRUE,
      data |->
        <<"5", "d", "7", "y", "0", "q", "5", "e", "8", "k", "l", "0", "l",
        "l", "3", "n", "e", "t", "s", "m", "t", "k", "e", "x", "2", "v",
        "f", "5", "c", "2", "2", "t", "x", "6", "m", "k", "y", "f", "y",
        "n", "x", "0", "l", "8", "c", "s", "h", "5", "u", "x", "v", "q">>,
      tb |-> <<"u", "c", "6", "6", "0", "3">>,
      bc |-> <<"t", "s", "v", "4", "4", "7">>],
     [key |->
        <<156, 67, 228, 9, 125, 118, 222, 62, 212, 219, 81, 199, 168, 26,
        219, 29, 38, 210, 156, 211, 253, 254, 78, 178, 123, 18, 140, 221,
        126, 4, 203, 113>>,
      onCurve |-> TRUE,
      data |->
        <<"8", "t", "3", "t", "w", "3", "j", "v", "t", "5", "u", "r", "q",
        "x", "j", "x", "p", "8", "j", "a", "e", "x", "0", "e", "c", "c",
        "a", "4", "8", "l", "0", "2", "q", "m", "0", "a", "8", "5", "n",
        "l", "a", "a", "n", "q", "2", "p", "9", "l", "q", "d", "v", "s">>,
      tb |-> <<"l", "q", "f", "0", "u", "0">>,
      bc |-> <<"g", "g", "l", "q", "x", "q">>],
     [key |->
        <<199, 143, 103, 83, 220, 50, 24, 34, 59, 162, 18, 229, 97, 208,
        86, 74, 65, 165, 24, 249, 228, 141, 14, 118, 51, 149, 130, 2, 145,
        18, 207, 142>>,
      onCurve |-> FALSE, data |-> <<>>, tb |-> <<>>, bc |-> <<>>],
     [key |->
        <<116, 229, 140, 117, 89, 59, 40, 155, 41, 71, 243, 12, 221, 91,
        59, 184, 233, 84, 134, 8, 90, 119, 242, 78, 157, 1, 248, 171, 29,
        89, 181, 86>>,
      onCurve |-> TRUE,
      data |->
        <<"k", "h", "t", "u", "h", "9", "3", "4", "j", "g", "r", "2", "k",
        "9", "4", "p", "f", "h", "c", "2", "5", "9", "0", "j", "n", "4",
        "n", "k", "3", "0", "s", "v", "h", "c", "j", "2", "h", "t", "t",
        "a", "0", "l", "4", "h", "j", "x", "7", "q", "u", "d", "p", "q">>,
      tb |-> <<"6", "7", "p", "5", "y", "d">>,
      bc |-> <<"d", "k", "h", "m", "7", "z">>],
     [key |->
        <<38, 79, 41, 207, 27, 111, 181, 247, 86, 186, 134, 70, 167, 86,
        52, 253, 200, 135, 127, 137, 38, 225, 107, 90, 159, 125, 151, 102,
        92, 47, 186, 87>>,
      onCurve |-> TRUE,
      data |->
        <<"r", "x", "t", "8", "c", "s", "c", "2", "t", "p", "c", "7", "j",
        "c", "g", "n", "4", "4", "8", "9", "8", "n", "z", "m", "d", "f",
        "p", "5", "v", "5", "g", "r", "5", "s", "4", "g", "2", "8", "r",
        "p", "s", "f", "q", "6", "9", "a", "w", "h", "7", "d", "0", "q">>,
      tb |-> <<"t", "u", "0", "x", "5", "6">>,
      bc |-> <<"u", "5", "e", "f", "w", "4">>],
     [key |->
        <<116, 194, 88, 255, 13, 22, 11, 16, 249, 39, 228, 241, 15, 189,
        206, 240, 181, 162, 134, 160, 227, 180, 114, 153, 163, 137, 196,
        30, 199, 12, 49, 107>>,
      onCurve |-> TRUE,
      data |->
        <<"a", "8", "r", "g", "p", "z", "f", "j", "r", "4", "r", "0", "q",
        "6", "v", "k", "y", "x", "w", "j", "n", "e", "g", "d", "9", "6",
        "9", "l", "r", "6", "4", "k", "9", "a", "d", "u", "s", "t", "n",
        "m", "e", "7", "c", "k", "z", "d", "v", "6", "r", "8", "c", "q">>,
      tb |-> <<"w", "z", "5", "k", "p", "0">>,
      bc |-> <<"e", "2", "z", "e", "m", "q">>],
     [key |->
        <<138, 174, 175, 79, 209, 68, 6, 119, 213, 33, 177, 216, 205, 231,
        39, 136, 238, 33, 32, 99, 162, 13, 72, 119, 12, 110, 217, 169, 35,
        147, 215, 87>>,
      onCurve |-> FALSE, data |-> <<>>, tb |-> <<>>, bc |-> <<>>],
     [key |->
        <<168, 38, 238, 252, 16, 15, 195, 237, 189, 81, 164, 255, 227, 26,
        168, 34, 21, 74, 130, 142, 212, 218, 21, 21, 217, 55, 9, 156, 100,
        161, 228, 239>>,
      onCurve |-> TRUE,
      data |->
        <<"c", "q", "4", "p", "e", "l", "d", "c", "c", "w", "k", "k", "k",
        "m", "r", "x", "f", "v", "w", "h", "9", "u", "u", "v", "y", "l",
        "z", "l", "8", "5", "y", "0", "5", "w", "w", "d", "2", "5", "8",
        "a", "t", "s", "h", "p", "v", "7", "8", "3", "f", "3", "u", "s">>,
      tb |-> <<"w", "k", "t", "u", "y", "e">>,
      bc |-> <<"e", "7", "a", "n", "7", "k">>],
     [key |->
        <<181, 153, 83, 145, 180, 228, 171, 221, 211, 55, 162, 165, 205,
        81, 131, 20, 53, 235, 54, 16, 19, 33, 156, 133, 59, 247, 120, 161,
        22, 54, 64, 194>>,
      onCurve |-> FALSE, data |-> <<>>, tb |-> <<>>, bc |-> <<>>],
     [key |->
        <<187, 217, 224, 20, 121, 118, 120, 204, 98, 47, 53, 187, 158, 152,
        168, 207, 51, 108, 15, 174, 81, 47, 9, 153, 127, 213, 71, 72, 69,
        48, 239, 206>>,
      onCurve |-> TRUE,
      data |->
        <<"h", "e", "2", "z", "x", "2", "p", "n", "e", "9", "y", "s", "d",
        "z", "f", "5", "p", "3", "x", "9", "4", "q", "0", "w", "f", "z",
        "7", "n", "9", "x", "0", "y", "l", "a", "8", "c", "w", "4", "q",
        "a", "9", "l", "t", "0", "f", "v", "c", "q", "n", "v", "l", "s">>,
      tb |-> <<"g", "4", "6", "8", "m", "y">>,
      bc |-> <<"l", "a", "v", "g", "p", "t">>],
     [key |->
        <<138, 75, 22, 238, 94, 56, 61, 159, 74, 205, 134, 63, 120, 27,
        110, 8, 118, 160, 146, 139, 131, 174, 78, 134, 247, 138, 174, 236,
        173, 146, 29, 166>>,
      onCurve |-> TRUE,
      data |->
        <<"7", "u", "z", "6", "8", "k", "9", "t", "f", "u", "t", "v", "8",
        "z", "s", "v", "n", "4", "k", "e", "u", "4", "m", "h", "2", "q",
        "a", "g", "l", "c", "f", "p", "y", "p", "6", "g", "n", "r", "2",
        "e", "6", "f", "9", "u", "0", "4", "c", "m", "t", "q", "4", "s">>,
      tb |-> <<"j", "9", "e", "x", "7", "7">>,
      bc |-> <<"9", "d", "0", "f", "y", "3">>],
     [key |->
        <<14, 101, 234, 10, 43, 47, 217, 39, 11, 78, 193, 32, 71, 55, 8,
        139, 160, 82, 144, 25, 101, 13, 168, 21, 71, 86, 47, 127, 54, 199,
        203, 154>>,
      onCurve |-> TRUE,
      data |->
        <<"k", "3", "m", "h", "s", "p", "t", "8", "q", "t", "r", "7", "p",
        "2", "u", "v", "u", "h", "v", "5", "9", "r", "v", "a", "a", "f",
        "e", "m", "9", "e", "u", "3", "0", "4", "u", "9", "a", "l", "3",
        "v", "r", "x", "n", "u", "w", "n", "v", "n", "u", "u", "q", "q">>,
      tb |-> <<"h", "l", "c", "0", "x", "5">>,
      bc |-> <<"q", "h", "w", "q", "u", "m">>],
     [key |->
        <<226, 203, 86, 123, 144, 36, 94, 50, 147, 254, 202, 159, 158, 221,
        220, 27, 115, 23, 218, 117, 124, 23, 145, 188, 169, 217, 200, 216,
        191, 202, 193, 222>>,
      onCurve |-> TRUE,
      data |->
        <<"h", "h", "0", "g", "2", "w", "t", "n", "n", "z", "s", "w", "s",
        "v", "l", "v", "2", "9", "k", "9", "s", "w", "9", "6", "n", "g",
        "v", "l", "s", "f", "k", "m", "j", "h", "7", "p", "0", "f", "c",
        "d", "g", "q", "l", "k", "f", "w", "z", "e", "k", "z", "f", "q">>,
      tb |-> <<"6", "0", "4", "a", "d", "m">>,
      bc |-> <<"d", "8", "r", "j", "h", "5">>],
     [key |->
        <<140, 37, 155, 153, 211, 247, 74, 30, 4, 237, 78, 47, 76, 145, 55,
        79, 252, 142, 97, 175, 184, 137, 59, 140, 9, 126, 23, 120, 62, 229,
        111, 38>>,
      onCurve |-> TRUE,
      data |->
        <<"d", "r", "l", "y", "v", "3", "q", "h", "w", "f", "4", "9", "h",
        "n", "l", "z", "6", "q", "2", "8", "n", "2", "e", "e", "7", "4",
        "m", "x", "z", "j", "5", "j", "n", "y", "e", "y", "w", "e", "k",
        "d", "v", "r", "0", "l", "d", "j", "u", "0", "0", "j", "l", "s">>,
      tb |-> <<"p", "l", "c", "a", "h", "r">>,
      bc |-> <<"k", "h", "w", "j", "d", "v">>],
     [key |->
        <<215, 51, 126, 145, 246, 39, 65, 42, 177, 97, 243, 69, 160, 45,
        166, 149, 80, 23, 152, 87, 163, 230, 101, 169, 181, 170, 114, 85,
        215, 48, 14, 8>>,
      onCurve |-> FALSE, data |-> <<>>, tb |-> <<>>, bc |-> <<>>]}

\* deriveChild(index) throws unless index is an integer in 0 .. 2^32 - 1.
DeriveChildOk(index) == index >= 0

AddressKey(mnemonic, index) ==
    CHOOSE r \in AddressKeyTable : r.mnemonic = mnemonic.id /\ r.index = index

\* publicKey.slice(1)
Slice1(bytes) == Tail(bytes)

\* btc.p2tr(xOnlyPubkey, undefined, network): throws when the key is not the
\* x coordinate of a curve point; the address is the bech32m text of the
\* tweaked key: hrp, "1", "p", 52 data characters, 6 checksum characters.
P2trOnCurve(xOnlyPubkey) ==
    \E r \in P2trTable : r.key = xOnlyPubkey /\ r.onCurve

P2trAddress(xOnlyPubkey, hrp) ==
    LET r == CHOOSE t \in P2trTable : t.key = xOnlyPubkey
    IN IF hrp = "bc" THEN <<"b", "c", "1", "p">> \o r.data \o r.bc
       ELSE <<"t", "b", "1", "p">> \o r.data \o r.tb

\* The x-only public key secp256k1 gives a private key (schnorr.getPublicKey).
PubSchnorr(privateKey) ==
    Slice1((CHOOSE r \in AddressKeyTable : r.privateKey = privateKey).publicKey)

(***************************************************************************)
(* Signing: what TransactionSigner and AddressWallet share.                *)
(*                                                                         *)
(* A PSBT hex string is [kind, tx]: "psbt" (the encoding of tx), "empty"   *)
(* (the empty string), "nonhex" (not a hex string) or "garbage" (hex that  *)
(* is no PSBT).  An input of tx carries tapInternalKey when the PSBT names *)
(* its Taproot internal key; the builders never set it.                    *)
(***************************************************************************)
\* "m/86'/0'/0'": a derivation path is its text, a sequence of characters.
DEFAULT_DERIVATION_PATH ==
    <<"m", "/", "8", "6", "'", "/", "0", "'", "/", "0", "'">>

PsbtOf(tx) == [kind |-> "psbt", tx |-> tx]

\* Sizes of the serialized transaction (Bitcoin wire format): a P2TR script
\* is 34 bytes, a script of unknown type its bytes; a key-path witness is one
\* item of 64 bytes.
ScriptSize(script) ==
    IF script.type = "unknown" THEN Len(script.data) ELSE 34

RECURSIVE OutputsSize(_)
OutputsSize(outputs) ==
    IF Len(outputs) = 0 THEN 0
    ELSE 8 + 1 + ScriptSize(outputs[1].script) + OutputsSize(Tail(outputs))

BaseSize(tx) == 4 + 1 + 41 * Len(tx.inputs) + 1 + OutputsSize(tx.outputs) + 4

\* finalTx.length: the serialization with marker, flag and witnesses.
RawSize(tx) == BaseSize(tx) + 2 + 66 * Len(tx.inputs)

\* calculateVirtualSize: Math.ceil(txBytes.length * 0.75)
calculateVirtualSize(size) == (3 * size + 3) \div 4

\* calculateFee: utxo.amount minus the sum of the transaction's outputs.
calculateFee(utxo, tx) == utxo.amount - SumAmounts(tx.outputs)

\* Mutant: the catch clause keeps the hex of the unfinished transaction.
SignFailureKeepsHex(msg) ==
    [success |-> FALSE, error |-> msg, txid |-> None, hex |-> Some(<<"partial">>),
     size |-> None, vsize |-> None, fee |-> None]

\* The catch clause of signPSBT: {success: false, error}.
SignFailure(msg) ==
    [success |-> FALSE, error |-> msg, txid |-> None, hex |-> None,
     size |-> None, vsize |-> None, fee |-> None]

\* The TransactionResult of a signing call that reached tx.extract().
SignSuccess(utxo, tx) ==
    [success |-> TRUE, error |-> "", txid |-> Some(<<"txid", tx>>),
     hex |-> Some(<<"raw", tx>>), size |-> Some(RawSize(tx)),
     vsize |-> Some(calculateVirtualSize(RawSize(tx))),
     fee |-> Some(calculateFee(utxo, tx))]

\* updateWitnessUtxo: input 0 receives {p2tr(xOnlyPubkey).script, utxo.amount}
\* unless it already has a witnessUtxo; the other inputs are not visited.
updateWitnessUtxo(tx, utxo, xOnlyPubkey) ==
    IF tx.inputs[1].hasWitnessUtxo THEN tx
    ELSE [tx EXCEPT !.inputs[1].hasWitnessUtxo = TRUE,
                    !.inputs[1].witnessUtxo =
                        [script |-> P2trScript(xOnlyPubkey), amount |-> utxo.amount]]

\* updateWitnessUtxo throws TransactionError when tx.getInput(0) throws (no
\* input) or, for an input 0 without witnessUtxo, when this.getNetworkConfig()
\* throws (the network of the signer is not supported), btc.p2tr does (the
\* key is not on the curve) or tx.updateInput does (a negative amount is no
\* unsigned 64-bit integer).
UpdateWitnessUtxoThrows(network, tx, utxo, xOnlyPubkey) ==
    \/ Len(tx.inputs) = 0
    \/ /\ ~tx.inputs[1].hasWitnessUtxo
       /\ \/ ~getNetworkConfigOk(network)
          \/ ~P2trOnCurve(xOnlyPubkey)
          \/ utxo.amount < 0

(***************************************************************************)
(* tx.sign, tx.finalize and tx.extract of @scure/btc-signer.               *)
(***************************************************************************)
\* signIdx signs a Taproot input through the key path only when the input
\* has tapInternalKey and that key is the private key's own public key; it
\* throws 'No taproot scripts signed' for every other Taproot input.
InputSignable(input, privateKey) ==
    input.tapInternalKey = Some(PubSchnorr(privateKey))

\* tx.sign(privateKey): the number of inputs signed; it throws when that is 0.
\* The Taproot signature hash covers the previous output of every input, so
\* signIdx throws for every input while one input has no witnessUtxo.
SignedInputs(tx, privateKey) ==
    IF \E i \in 1..Len(tx.inputs) : ~tx.inputs[i].hasWitnessUtxo THEN 0
    ELSE Cardinality({i \in 1..Len(tx.inputs) :
                        InputSignable(tx.inputs[i], privateKey)})

\* sign, finalize (throws on an input without a signature) and extract: the
\* message of the error thrown, or "".
LibSignFailure(tx, privateKey) ==
    IF SignedInputs(tx, privateKey) = 0 THEN "No inputs signed"
    ELSE IF SignedInputs(tx, privateKey) < Len(tx.inputs) THEN "Not finalized"
    ELSE ""

(***************************************************************************)
(* TransactionSigner.                                                      *)
(***************************************************************************)
\* validateSigningInputs(psbtHex, utxo, mnemonic): the message thrown, or "".
SignerValidateSigningInputs(psbtHex, utxo, mnemonic) ==
    IF psbtHex.kind = "empty" THEN "Invalid PSBT hex"
    ELSE IF psbtHex.kind = "nonhex" THEN "Invalid PSBT hex format"
    ELSE IF InvalidUtxoFormat(utxo) THEN "Invalid UTXO format"
    ELSE IF mnemonic.words = 0 THEN "Invalid mnemonic"
    ELSE IF mnemonic.words < 12 \/ mnemonic.words > 24 THEN "Invalid mnemonic word count"
    ELSE ""

\* mnemonicToSeed (@scure/bip39) throws unless the mnemonic has 12, 15, 18, 21
\* or 24 words.
MnemonicToSeedThrows(mnemonic) == mnemonic.words \notin {12, 15, 18, 21, 24}

\* String.split: the parts of a text between the separators.
RECURSIVE SplitAt(_, _, _)
SplitAt(chars, separator, part) ==
    IF Len(chars) = 0 THEN <<part>>
    ELSE IF chars[1] = separator
         THEN <<part>> \o SplitAt(Tail(chars), separator, <<>>)
    ELSE SplitAt(Tail(chars), separator, Append(part, chars[1]))

DecimalDigits == <<"0", "1", "2", "3", "4", "5", "6", "7", "8", "9">>

DigitValue(c) == (CHOOSE i \in 1..10 : DecimalDigits[i] = c) - 1

\* The number a text of decimal digits denotes, -1 from 2^31 on.
RECURSIVE DecimalValue(_, _)
DecimalValue(digits, value) ==
    IF value = 0 - 1 \/ Len(digits) = 0 THEN value
    ELSE IF \/ value > 214748364
            \/ value = 214748364 /\ DigitValue(digits[1]) > 7
         THEN 0 - 1
    ELSE DecimalValue(Tail(digits), 10 * value + DigitValue(digits[1]))

\* One part of a path: /^(\d+)('?)$/ and an index below 2^31 (HARDENED_OFFSET).
ChildIndexOk(part) ==
    LET digits == IF Len(part) > 0 /\ part[Len(part)] = "'"
                  THEN SubSeq(part, 1, Len(part) - 1) ELSE part
    IN /\ Len(digits) > 0
       /\ \A i \in 1..Len(digits) : \E j \in 1..10 : DecimalDigits[j] = digits[i]
       /\ DecimalValue(digits, 0) # 0 - 1

\* HDKey.derive(path) of @scure/bip32: throws 'Path must start with "m" or
\* "M"' unless /^[mM]'?/ matches; returns the key itself for /^[mM]'?$/;
\* otherwise removes /^[mM]'?\// and derives one child for each part between
\* slashes, throwing for a part that is no index.
HdDerivePathOk(path) ==
    LET n == Len(path)
        prefix == IF n >= 2 /\ path[2] = "'" THEN 2 ELSE 1
        parts == IF n > prefix /\ path[prefix + 1] = "/"
                 THEN SplitAt(SubSeq(path, prefix + 2, n), "/", <<>>)
                 ELSE SplitAt(path, "/", <<>>)
    IN /\ n >= 1
       /\ path[1] \in {"m", "M"}
       /\ n = prefix \/ \A i \in 1..Len(parts) : ChildIndexOk(parts[i])

\* Number.prototype.toString() of an integer.
RECURSIVE NumberToString(_)
NumberToString(n) ==
    IF n < 0 THEN <<"-">> \o NumberToString(0 - n)
    ELSE IF n < 10 THEN <<DecimalDigits[n + 1]>>
    ELSE Append(NumberToString(n \div 10), DecimalDigits[(n % 10) + 1])

\* new TransactionSigner(network = DEFAULT_NETWORK)
TransactionSigner(network) ==
    [network |-> IF IsSome(network) THEN Val(network) ELSE DEFAULT_NETWORK]

\* deriveTaprootKeys(mnemonic, derivationPath, index) of a signer:
\* hdkey.derive(derivationPath).derive('0').derive(index.toString()), then
\* this.getNetworkConfig(); the key of the ok case is the one of the default
\* derivation path.
SignerDeriveTaprootKeys(this, mnemonic, derivationPath, index) ==
    IF \/ MnemonicToSeedThrows(mnemonic)
       \/ ~HdDerivePathOk(derivationPath)
       \/ ~HdDerivePathOk(<<"0">>)
       \/ ~HdDerivePathOk(NumberToString(index))
       \/ ~getNetworkConfigOk(this.network)
    THEN [ok |-> FALSE, privateKey |-> <<>>, xOnlyPubkey |-> <<>>]
    ELSE [ok |-> TRUE, privateKey |-> AddressKey(mnemonic, index).privateKey,
          xOnlyPubkey |-> Slice1(AddressKey(mnemonic, index).publicKey)]

\* TransactionSigner.signPSBT(psbtHex, utxo, mnemonic) with the default
\* derivation path.
signerSignPSBT(this, psbtHex, utxo, mnemonic) ==
    LET keys == SignerDeriveTaprootKeys(this, mnemonic, DEFAULT_DERIVATION_PATH, 0)
        tx == updateWitnessUtxo(psbtHex.tx, utxo, keys.xOnlyPubkey)
    IN IF SignerValidateSigningInputs(psbtHex, utxo, mnemonic) # ""
       THEN SignFailure(SignerValidateSigningInputs(psbtHex, utxo, mnemonic))
       ELSE IF psbtHex.kind # "psbt" THEN SignFailure("Invalid PSBT")
       ELSE IF ~keys.ok THEN SignFailure("Failed to derive Taproot keys")
       ELSE IF UpdateWitnessUtxoThrows(this.network, psbtHex.tx, utxo,
                                       keys.xOnlyPubkey)
            THEN SignFailure("Failed to update witness UTXO")
       ELSE IF LibSignFailure(tx, keys.privateKey) # ""
            THEN SignFailure(LibSignFailure(tx, keys.privateKey))
       ELSE SignSuccess(utxo, tx)

\* The parsed transaction of TransactionSigner.signPSBT after its call of
\* updateWitnessUtxo: [reached, tx].
signerWitnessAttached(this, psbtHex, utxo, mnemonic) ==
    LET keys == SignerDeriveTaprootKeys(this, mnemonic, DEFAULT_DERIVATION_PATH, 0)
    IN IF \/ SignerValidateSigningInputs(psbtHex, utxo, mnemonic) # ""
          \/ psbtHex.kind # "psbt"
          \/ ~keys.ok
          \/ UpdateWitnessUtxoThrows(this.network, psbtHex.tx, utxo,
                                     keys.xOnlyPubkey)
       THEN [reached |-> FALSE, tx |-> NoTx]
       ELSE [reached |-> TRUE,
             tx |-> updateWitnessUtxo(psbtHex.tx, utxo, keys.xOnlyPubkey)]

\* What signTransaction throws or returns.
SignThrown(msg) ==
    [threw |-> TRUE, kind |-> "TransactionError", msg |-> msg, txid |-> None,
     hex |-> None, size |-> 0, vsize |-> 0, fee |-> 0]

\* signTransaction (both signers): throws TransactionError unless signPSBT
\* reports success with a txid and a hex; result.size || 0 and the like.
signTransaction(result) ==
    IF ~result.success \/ ~IsSome(result.txid) \/ ~IsSome(result.hex)
    THEN SignThrown(IF result.error # "" THEN result.error
                    ELSE "Transaction signing failed")
    ELSE [threw |-> FALSE, kind |-> "", msg |-> "", txid |-> result.txid,
          hex |-> result.hex,
          size |-> IF IsSome(result.size) THEN Val(result.size) ELSE 0,
          vsize |-> IF IsSome(result.vsize) THEN Val(result.vsize) ELSE 0,
          fee |-> IF IsSome(result.fee) THEN Val(result.fee) ELSE 0]

(***************************************************************************)
(* AddressWallet: [privateKey, network, address, publicKey, xOnlyPubkey]   *)
(* as set by its constructor.                                              *)
(***************************************************************************)
Xor01(byte) == IF byte % 2 = 0 THEN byte + 1 ELSE byte - 1

\* derivePublicKey: 0x02 followed by each of the 32 private-key bytes (0 for
\* a missing one) XOR 0x01.
derivePublicKey(privateKey) ==
    <<2>> \o [i \in 1..32 |-> Xor01(IF i <= Len(privateKey) THEN privateKey[i] ELSE 0)]

\* generateAddressFromPublicKey: [ok, address]; every failure is rethrown as
\* CryptographyError.
generateAddressFromPublicKey(xOnlyPubkey, network) ==
    IF ~getNetworkConfigOk(network) \/ ~P2trOnCurve(xOnlyPubkey)
    THEN [ok |-> FALSE, address |-> <<>>]
    ELSE [ok |-> TRUE,
          address |-> P2trAddress(xOnlyPubkey, IF network = "mainnet" THEN "bc" ELSE "tb")]

\* new AddressWallet(privateKey, network, address?): [ok, wallet]; without an
\* address (<<>>: undefined or the empty string) the address is generated.
NewAddressWallet(privateKey, network, address) ==
    LET publicKey == derivePublicKey(privateKey)
        generated == generateAddressFromPublicKey(Slice1(publicKey), network)
        given == IsSome(address)
    IN [ok |-> given \/ generated.ok,
        wallet |-> [privateKey |-> privateKey, network |-> network,
                    publicKey |-> publicKey, xOnlyPubkey |-> Slice1(publicKey),
                    address |-> IF given THEN Val(address) ELSE generated.address]]

\* A testnet wallet constructed with an address.
Wallet(privateKey, address) ==
    NewAddressWallet(privateKey, "testnet", Some(address)).wallet

\* A testnet wallet constructed without an address; the text of the address
\* it generates is written as [prefix, head, tail].
GeneratedWallet(privateKey) ==
    LET wallet == NewAddressWallet(privateKey, "testnet", None).wallet
    IN [wallet EXCEPT !.address =
            [prefix |-> "tb1p", head |-> SubSeq(wallet.address, 5, 32),
             tail |-> SubSeq(wallet.address, 33, Len(wallet.address))]]

WalletXOnlyPubkey(wallet) == wallet.xOnlyPubkey

\* Mutant: the UTXO's address is not compared with the wallet's.
WalletValidateSigningInputsAnyAddress(wallet, psbtHex, utxo) ==
    IF psbtHex.kind = "empty" THEN "Invalid PSBT hex"
    ELSE IF psbtHex.kind = "nonhex" THEN "Invalid PSBT hex format"
    ELSE IF InvalidUtxoFormat(utxo) THEN "Invalid UTXO format"
    ELSE ""

\* validateSigningInputs(psbtHex, utxo): the message thrown, or "".
WalletValidateSigningInputs(wallet, psbtHex, utxo) ==
    IF psbtHex.kind = "empty" THEN "Invalid PSBT hex"
    ELSE IF psbtHex.kind = "nonhex" THEN "Invalid PSBT hex format"
    ELSE IF InvalidUtxoFormat(utxo) THEN "Invalid UTXO format"
    ELSE IF utxo.address # wallet.address THEN "UTXO address does not match wallet address"
    ELSE ""

\* AddressWallet.signPSBT(psbtHex, utxo).
walletSignPSBT(wallet, psbtHex, utxo) ==
    LET tx == updateWitnessUtxo(psbtHex.tx, utxo, WalletXOnlyPubkey(wallet))
    IN IF WalletValidateSigningInputs(wallet, psbtHex, utxo) # ""
       THEN SignFailure(WalletValidateSigningInputs(wallet, psbtHex, utxo))
       ELSE IF psbtHex.kind # "psbt" THEN SignFailure("Invalid PSBT")
       ELSE IF UpdateWitnessUtxoThrows(wallet.network, psbtHex.tx, utxo,
                                       WalletXOnlyPubkey(wallet))
            THEN SignFailure("Failed to update witness UTXO")
       ELSE IF LibSignFailure(tx, wallet.privateKey) # ""
            THEN SignFailure(LibSignFailure(tx, wallet.privateKey))
       ELSE SignSuccess(utxo, tx)

\* The parsed transaction of AddressWallet.signPSBT after its call of
\* updateWitnessUtxo: [reached, tx].
walletWitnessAttached(wallet, psbtHex, utxo) ==
    IF \/ WalletValidateSigningInputs(wallet, psbtHex, utxo) # ""
       \/ psbtHex.kind # "psbt"
       \/ UpdateWitnessUtxoThrows(wallet.network, psbtHex.tx, utxo,
                                  WalletXOnlyPubkey(wallet))
    THEN [reached |-> FALSE, tx |-> NoTx]
    ELSE [reached |-> TRUE,
          tx |-> updateWitnessUtxo(psbtHex.tx, utxo, WalletXOnlyPubkey(wallet))]

(***************************************************************************)
(* CharmsWallet.  A call returns [threw, kind, msg, value]: the value it   *)
(* returned, or the error it threw.                                        *)
(***************************************************************************)
DEFAULT_WORD_COUNT == 12
ENTROPY_BITS_12 == 128
ENTROPY_BITS_24 == 256
SUPPORTED_WORD_COUNTS == {12, 15, 18, 21, 24}

Returns(value) == [threw |-> FALSE, kind |-> "", msg |-> "", value |-> value]
Throws(kind, msg) == [threw |-> TRUE, kind |-> kind, msg |-> msg, value |-> <<>>]

\* The code ('VALIDATION_ERROR', ...) an error class gives its instances.
ErrorCode(kind) ==
    CASE kind = "ValidationError" -> "VALIDATION_ERROR"
      [] kind = "TransactionError" -> "TRANSACTION_ERROR"
      [] kind = "CryptographyError" -> "CRYPTOGRAPHY_ERROR"
      [] OTHER -> ""

\* generateMnemonic(wordlist, strength) of @scure/bip39: strength bits of
\* entropy and strength / 32 bits of checksum, 11 bits a word.
WordsOfEntropy(strength) == (strength + strength \div 32) \div 11

\* wordCount === 12 ? ENTROPY_BITS_12 : ENTROPY_BITS_24
EntropyBits(wordCount) == IF wordCount = 12 THEN ENTROPY_BITS_12 ELSE ENTROPY_BITS_24

\* generateMnemonic(wordCount = DEFAULT_WORD_COUNT): the value is the number
\* of words of the mnemonic and its entropy; the catch clause wraps every
\* error, the ValidationError of the word-count check included, in a
\* CryptographyError.
generateMnemonic(wordCount) ==
    LET count == IF IsSome(wordCount) THEN Val(wordCount) ELSE DEFAULT_WORD_COUNT
    IN IF count \notin SUPPORTED_WORD_COUNTS
       THEN Throws("CryptographyError", "Failed to generate mnemonic: Unsupported word count")
       ELSE Returns([words |-> WordsOfEntropy(EntropyBits(count)),
                     entropyBits |-> EntropyBits(count)])

\* Mutant: an invalid mnemonic is reported without an error string.
InvalidMnemonicResultSilent == [valid |-> FALSE, error |-> ""]

InvalidMnemonicResult ==
    [valid |-> FALSE,
     error |-> "Invalid mnemonic phrase. Please check the words and try again."]

\* validateMnemonic(mnemonic): {valid, error}; the library check throws for
\* no input, so the catch clause is never entered.
validateMnemonic(mnemonic) ==
    IF ~Bip39Valid(mnemonic) THEN InvalidMnemonicResult
    ELSE [valid |-> TRUE, error |-> ""]

\* network === 'mainnet' ? btc.NETWORK : btc.TEST_NETWORK
Hrp(network) == IF network = "mainnet" THEN "bc" ELSE "tb"

\* Mutant: the address key is derived without the index (always child 0).
generateAddressIgnoresIndex(mnemonic, network, index) ==
    IF ~Bip39Valid(mnemonic)
    THEN Throws("CryptographyError", "Failed to generate address: Invalid mnemonic phrase")
    ELSE IF ~DeriveChildOk(index)
    THEN Throws("CryptographyError", "Failed to generate address: Invalid index")
    ELSE Returns(P2trAddress(Slice1(AddressKey(mnemonic, 0).publicKey), Hrp(network)))

\* CharmsWallet.generateAddress(mnemonic, network, index).
generateAddress(mnemonic, network, index) ==
    IF ~Bip39Valid(mnemonic)
    THEN Throws("CryptographyError", "Failed to generate address: Invalid mnemonic phrase")
    ELSE IF ~DeriveChildOk(index)
    THEN Throws("CryptographyError", "Failed to generate address: Invalid index")
    ELSE Returns(P2trAddress(Slice1(AddressKey(mnemonic, index).publicKey), Hrp(network)))

\* Mutant: the private key is derived without the index (always child 0).
getPrivateKeyIgnoresIndex(mnemonic, network, index) ==
    IF ~Bip39Valid(mnemonic)
    THEN Throws("CryptographyError", "Failed to get private key: Invalid mnemonic phrase")
    ELSE IF ~DeriveChildOk(index)
    THEN Throws("CryptographyError", "Failed to get private key: Invalid index")
    ELSE Returns(AddressKey(mnemonic, 0).privateKey)

\* CharmsWallet.getPrivateKey(mnemonic, network, index).
getPrivateKey(mnemonic, network, index) ==
    IF ~Bip39Valid(mnemonic)
    THEN Throws("CryptographyError", "Failed to get private key: Invalid mnemonic phrase")
    ELSE IF ~DeriveChildOk(index)
    THEN Throws("CryptographyError", "Failed to get private key: Invalid index")
    ELSE Returns(AddressKey(mnemonic, index).privateKey)

\* CharmsWallet.getAddressData(mnemonic, network, index).
getAddressData(mnemonic, network, index) ==
    IF ~Bip39Valid(mnemonic)
    THEN Throws("CryptographyError", "Failed to get address data: Invalid mnemonic phrase")
    ELSE IF ~DeriveChildOk(index)
    THEN Throws("CryptographyError", "Failed to get address data: Invalid index")
    ELSE LET addressKey == AddressKey(mnemonic, index)
             xOnlyPubkey == Slice1(addressKey.publicKey)
         IN Returns([privateKey |-> addressKey.privateKey,
                     publicKey |-> addressKey.publicKey,
                     xOnlyPubkey |-> xOnlyPubkey,
                     address |-> P2trAddress(xOnlyPubkey, Hrp(network))])

HexChars == <<"0", "1", "2", "3", "4", "5", "6", "7", "8", "9", "a", "b", "c", "d", "e", "f">>

\* byte.toString(16).padStart(2, '0')
ByteHex(byte) == <<HexChars[(byte \div 16) + 1], HexChars[(byte % 16) + 1]>>

\* privateKey.slice(0, 8).reduce((acc, byte) => acc + hex of byte, '')
RECURSIVE HexOfBytes(_)
HexOfBytes(bytes) ==
    IF Len(bytes) = 0 THEN <<>> ELSE ByteHex(bytes[1]) \o HexOfBytes(Tail(bytes))

\* '0'.repeat(n)
RepeatZero(n) == [i \in 1..n |-> "0"]

\* The mockAddress of fromPrivateKey: prefix, the hex of the first 8 bytes
\* of the private key, and zeros up to 54 characters after the prefix.
MockAddress(privateKey, network) ==
    LET addressSuffix == HexOfBytes(SubSeq(privateKey, 1, IF Len(privateKey) < 8
                                                          THEN Len(privateKey) ELSE 8))
        prefix == IF network = "mainnet" THEN <<"b", "c", "1", "p">>
                  ELSE <<"t", "b", "1", "p">>
    IN prefix \o addressSuffix \o RepeatZero(54 - Len(addressSuffix))

\* CharmsWallet.fromPrivateKey(privateKey, network): the AddressWallet.
fromPrivateKey(privateKey, network) ==
    NewAddressWallet(privateKey, network, Some(MockAddress(privateKey, network))).wallet

\* The character classes of ADDRESS_PATTERNS.
LowerCase ==
    {"a", "b", "c", "d", "e", "f", "g", "h", "i", "j", "k", "l", "m",
     "n", "o", "p", "q", "r", "s", "t", "u", "v", "w", "x", "y", "z"}
UpperCase ==
    {"A", "B", "C", "D", "E", "F", "G", "H", "I", "J", "K", "L", "M",
     "N", "O", "P", "Q", "R", "S", "T", "U", "V", "W", "X", "Y", "Z"}
Digits == {"0", "1", "2", "3", "4", "5", "6", "7", "8", "9"}

\* [a-zA-HJ-NP-Z0-9]
Bech32Class == LowerCase \cup (UpperCase \ {"I", "O"}) \cup Digits
\* [a-km-zA-HJ-NP-Z1-9]
Base58Class == (LowerCase \ {"l"}) \cup (UpperCase \ {"I", "O"}) \cup (Digits \ {"0"})

\* /^<one of heads><class>{lo,hi}$/.test(address)
Matches(heads, class, lo, hi, address) ==
    \E head \in heads :
        /\ Len(address) >= Len(head) + lo
        /\ Len(address) <= Len(head) + hi
        /\ SubSeq(address, 1, Len(head)) = head
        /\ \A i \in (Len(head) + 1)..Len(address) : address[i] \in class

MAINNET_P2TR(address) == Matches({<<"b", "c", "1", "p">>}, Bech32Class, 58, 58, address)
TESTNET_P2TR(address) == Matches({<<"t", "b", "1", "p">>}, Bech32Class, 58, 58, address)
MAINNET_P2WPKH(address) == Matches({<<"b", "c", "1", "q">>}, Bech32Class, 38, 38, address)
TESTNET_P2WPKH(address) == Matches({<<"t", "b", "1", "q">>}, Bech32Class, 38, 38, address)
\* Mutant: the mainnet legacy pattern also takes the testnet first characters.
LegacyAnyFirstCharacter(address) ==
    Matches({<<"1">>, <<"3">>, <<"m">>, <<"n">>, <<"2">>}, Base58Class, 25, 34, address)
LEGACY(address) == Matches({<<"1">>, <<"3">>}, Base58Class, 25, 34, address)
TESTNET_LEGACY(address) == Matches({<<"m">>, <<"n">>, <<"2">>}, Base58Class, 25, 34, address)

AddressValid(network, type) ==
    [valid |-> TRUE, network |-> network, type |-> type, error |-> ""]

\* Mutant: the Taproot test of a test network uses the mainnet pattern.
TestnetP2trByMainnetPattern(network, address) ==
    network \in {"testnet", "testnet4"} /\ MAINNET_P2TR(address)

\* (network === 'testnet' || network === 'testnet4') && TESTNET_P2TR.test(address)
TestnetP2tr(network, address) ==
    network \in {"testnet", "testnet4"} /\ TESTNET_P2TR(address)

\* validateAddress(address) of a CharmsWallet whose config.network is network.
validateAddress(network, address) ==
    IF network = "mainnet" /\ MAINNET_P2TR(address) THEN AddressValid("mainnet", "p2tr")
    ELSE IF TestnetP2tr(network, address) THEN AddressValid(network, "p2tr")
    ELSE IF network = "mainnet" /\ MAINNET_P2WPKH(address)
         THEN AddressValid("mainnet", "p2wpkh")
    ELSE IF network \in {"testnet", "testnet4"} /\ TESTNET_P2WPKH(address)
         THEN AddressValid(network, "p2wpkh")
    ELSE IF network = "mainnet" /\ LEGACY(address) THEN AddressValid("mainnet", "legacy")
    ELSE IF network \in {"testnet", "testnet4"} /\ TESTNET_LEGACY(address)
         THEN AddressValid(network, "legacy")
    ELSE [valid |-> FALSE, network |-> "", type |-> "",
          error |-> "Invalid address format for network"]

\* TransactionSigner.deriveTaprootKeys(mnemonic, derivationPath, index) of a
\* signer constructed with network, as a caller sees it: the TaprootKeys it
\* resolves with, or the CryptographyError its catch clause throws.
signerDeriveTaprootKeys(network, mnemonic, derivationPath, index) ==
    LET keys == SignerDeriveTaprootKeys(TransactionSigner(Some(network)), mnemonic,
                                        derivationPath, index)
    IN IF ~keys.ok
       THEN Throws("CryptographyError", "Failed to derive Taproot keys")
       ELSE Returns([privateKey |-> keys.privateKey,
                     publicKey |-> AddressKey(mnemonic, index).publicKey,
                     xOnlyPubkey |-> keys.xOnlyPubkey,
                     address |-> P2trAddress(keys.xOnlyPubkey, Hrp(network))])

(***************************************************************************)
(* A CharmsWallet instance: this.config.                                   *)
(***************************************************************************)
\* A Partial<WalletConfig>: every field may be left out.
PartialConfig(network, derivationPath, addressType) ==
    [network |-> network, derivationPath |-> derivationPath,
     addressType |-> addressType, storage |-> None]

NoConfig == PartialConfig(None, None, None)

\* constructor(config = {}): config.network || DEFAULT_NETWORK and the like;
\* || takes the default for a field left out and for the empty string.
NewCharmsWallet(partial) ==
    [network |-> IF IsSome(partial.network) /\ Val(partial.network) # ""
                 THEN Val(partial.network)
                 ELSE DEFAULT_NETWORK,
     derivationPath |-> IF /\ IsSome(partial.derivationPath)
                           /\ Len(Val(partial.derivationPath)) > 0
                        THEN Val(partial.derivationPath)
                        ELSE DEFAULT_DERIVATION_PATH,
     addressType |-> IF IsSome(partial.addressType) /\ Val(partial.addressType) # ""
                     THEN Val(partial.addressType)
                     ELSE "taproot",
     storage |-> IF IsSome(partial.storage) THEN Val(partial.storage) ELSE "{}"]

\* getConfig(): { ...this.config }, a copy of the fields.
getConfig(cfg) ==
    [network |-> cfg.network, derivationPath |-> cfg.derivationPath,
     addressType |-> cfg.addressType, storage |-> cfg.storage]

\* updateConfig(updates): Object.assign(this.config, updates).
updateConfig(cfg, updates) ==
    [network |-> IF IsSome(updates.network) THEN Val(updates.network)
                 ELSE cfg.network,
     derivationPath |-> IF IsSome(updates.derivationPath)
                        THEN Val(updates.derivationPath)
                        ELSE cfg.derivationPath,
     addressType |-> IF IsSome(updates.addressType) THEN Val(updates.addressType)
                     ELSE cfg.addressType,
     storage |-> IF IsSome(updates.storage) THEN Val(updates.storage)
                 ELSE cfg.storage]

\* getNetworkConfig(): btc.NETWORK (bech32 'bc') or btc.TEST_NETWORK ('tb').
getNetworkConfig(cfg) ==
    IF cfg.network = "mainnet" THEN Returns("bc")
    ELSE IF cfg.network \in {"testnet", "testnet4"} THEN Returns("tb")
    ELSE Throws("ValidationError", "Unsupported network")

\* deriveTaprootKeys(mnemonic, index = 0) of the instance: mnemonicToSeed,
\* the deriveChild chain 86', 0', 0', 0, index, this.getNetworkConfig() and
\* btc.p2tr; every error is wrapped in a CryptographyError.  The mnemonic is
\* not validated: mnemonicToSeed checks the word count only.
deriveTaprootKeys(cfg, mnemonic, index) ==
    IF MnemonicToSeedThrows(mnemonic)
    THEN Throws("CryptographyError", "Failed to derive Taproot keys: Invalid mnemonic")
    ELSE IF ~DeriveChildOk(index)
    THEN Throws("CryptographyError", "Failed to derive Taproot keys: Invalid index")
    ELSE IF getNetworkConfig(cfg).threw
    THEN Throws("CryptographyError", "Failed to derive Taproot keys: Unsupported network")
    ELSE LET addressKey == AddressKey(mnemonic, index)
             xOnlyPubkey == Slice1(addressKey.publicKey)
         IN Returns([privateKey |-> addressKey.privateKey,
                     publicKey |-> addressKey.publicKey,
                     xOnlyPubkey |-> xOnlyPubkey,
                     address |-> P2trAddress(xOnlyPubkey,
                                             getNetworkConfig(cfg).value)])

(***************************************************************************)
(* The inputs the calls are made with.                                     *)
(***************************************************************************)
Addr(prefix, head, tail) == [prefix |-> prefix, head |-> head, tail |-> tail]
Owner == Addr("tb1p", Chars("p", 28), Chars("p", 30))
Other == Addr("tb1p", Chars("z", 28), Chars("z", 30))
OffCurveAddr == Addr("tb1p", Chars("q", 28), Chars("q", 30))
SegwitAddr == Addr("tb1q", Chars("p", 28), Chars("p", 10))
NoAddr == Addr("", <<>>, <<>>)

OwnerKey == AddressKey(M_ABOUT, 0).privateKey
OtherKey == AddressKey(M_YELLOW, 0).privateKey

\* The Taproot address of a private key on testnet, as [prefix, head, tail].
TaprootAddr(privateKey) ==
    LET text == P2trAddress(PubSchnorr(privateKey), "tb")
    IN Addr("tb1p", SubSeq(text, 5, 32), SubSeq(text, 33, Len(text)))

Utxo(txid, vout, amount, address) ==
    [txid |-> txid, vout |-> vout, amount |-> amount, address |-> address]

Output(address, amount) == [address |-> address, amount |-> amount]

SimpleUtxoPool ==
    {Utxo("T1", Some(0), a, Owner) : a \in {0, 699, 1245, 1246}}
        \cup {Utxo("T2", Some(1), 5000, TaprootAddr(OtherKey)),
              Utxo("T2", Some(0), 1245, OffCurveAddr)}

OutputPool == {Output(Other, 546), Output(Other, 545), Output(OffCurveAddr, 600)}

MiningUtxoPool ==
    {Utxo("T1", Some(0), a, Owner) : a \in {0 - 1000, 0, 999, 1000, 1245, 2075, 2076, 5000}}
        \cup {Utxo("", Some(0), 5000, Owner), Utxo("T1", None, 5000, Owner),
              Utxo("T1", Some(0), 5000, NoAddr), Utxo("zz", Some(0), 5000, Owner),
              Utxo("T1", Some(0), 5000, OffCurveAddr), Utxo("T1", Some(0), 5000, SegwitAddr),
              Utxo("T1", Some(0), 5000, TaprootAddr(OwnerKey))}

\* Hex strings of 64, 32 and 31 digits, the empty string, and 32 characters
\* the fifth of which is no hex digit.
HashPool ==
    {[i \in 1..64 |-> (7 * i) % 16], [i \in 1..32 |-> (3 * i) % 16],
     [i \in 1..31 |-> (3 * i) % 16], <<>>,
     [i \in 1..32 |-> IF i = 5 THEN 16 ELSE 1]}

Num(m, e) == [m |-> m, e |-> e]

\* undefined, -1, 0, 1, 0xabcdef, 2^31 - 1, 2^32, 2^36, 16^127, 16^128, 16^129.
NoncePool ==
    {None, Some(Num(0 - 1, 0)), Some(Num(0, 0)), Some(Num(1, 0)),
     Some(Num(11259375, 0)), Some(Num(2147483647, 0)), Some(Num(1, 8)),
     Some(Num(1, 9)), Some(Num(1, 127)), Some(Num(1, 128)), Some(Num(1, 129))}

FeeRatePool == {None, Some(0 - 1), Some(0), Some(1), Some(1000), Some(1001)}

SimpleFeeRatePool == {None, Some(0), Some(1), Some(1001)}

ChangeAddressPool == {NoAddr, Owner, OffCurveAddr}

SimpleNetworkPool == {None, Some("testnet")}

NetworkPool == {None, Some("regtest")}

\* The builder a call is made on: new TransactionBuilder() or
\* new TransactionBuilder('regtest').
BuilderPool == {TransactionBuilder(None), TransactionBuilder(Some("regtest"))}

SignUtxoPool ==
    {Utxo("T1", Some(0), 0, Owner), Utxo("T1", Some(0), 0 - 5000, Owner),
     Utxo("T1", Some(0), 5000, Owner), Utxo("T1", Some(0), 5000, Other),
     Utxo("T1", Some(0), 5000, TaprootAddr(OtherKey)),
     Utxo("T1", Some(0), 5000, GeneratedWallet(OwnerKey).address)}

\* The empty string, a valid 12-word mnemonic and a 13-word sentence.
MnemonicPool == {Mnemonic("", 0), M_ABOUT, Mnemonic("thirteen", 13)}


\* The third wallet's key gives a derivePublicKey that is not on the curve;
\* the last wallet is new AddressWallet(key, 'regtest', address).
WalletPool ==
    {Wallet(OwnerKey, Owner), Wallet(OtherKey, Other),
     NewAddressWallet(OwnerKey, "regtest", Some(Owner)).wallet,
     Wallet(AddressKey(M_ABOUT, 1).privateKey, Owner),
     Wallet(OtherKey, TaprootAddr(OtherKey)), GeneratedWallet(OwnerKey)}

\* A transaction made outside the builders: every input names the Taproot
\* internal key of the private key that owns it and spends 5000 sat; one
\* output of 4000 sat per input.
ExternalInput(txid, privateKey) ==
    [txid |-> txid, index |-> 0, hasWitnessUtxo |-> TRUE,
     witnessUtxo |-> [script |-> P2trScript(PubSchnorr(privateKey)), amount |-> 5000],
     tapInternalKey |-> Some(PubSchnorr(privateKey))]

\* The same input without previous-output data.
BareInput(txid, privateKey) ==
    [txid |-> txid, index |-> 0, hasWitnessUtxo |-> FALSE,
     witnessUtxo |-> [script |-> P2trScript(<<>>), amount |-> 0],
     tapInternalKey |-> Some(PubSchnorr(privateKey))]

\* An outside transaction whose inputs lack previous-output data; "first"
\* tells whether its first input has it nevertheless.
BareTx(privateKeys, first) ==
    [inputs |-> [i \in 1..Len(privateKeys) |->
                    IF i = 1 /\ first THEN ExternalInput("T1", privateKeys[i])
                    ELSE BareInput(IF i = 1 THEN "T1" ELSE "T2", privateKeys[i])],
     outputs |-> <<[script |-> P2trScript(PubSchnorr(OtherKey)), amount |-> 4000]>>]

ExternalTx(privateKeys) ==
    [inputs |-> [i \in 1..Len(privateKeys) |->
                    ExternalInput(IF i = 1 THEN "T1" ELSE "T2", privateKeys[i])],
     outputs |-> [i \in 1..Len(privateKeys) |->
                    [script |-> P2trScript(PubSchnorr(OtherKey)), amount |-> 4000]]]

\* The strings a caller passes as psbtHex: a caller that holds the PSBT of a
\* build passes it or a bad string; a caller that has built nothing passes
\* the PSBT of a transaction made outside the builders.
PsbtPool(psbt) ==
    IF psbt.present
    THEN {PsbtOf(psbt.tx), [kind |-> "empty", tx |-> NoTx],
          [kind |-> "nonhex", tx |-> NoTx], [kind |-> "garbage", tx |-> NoTx]}
    ELSE {PsbtOf(ExternalTx(<<OwnerKey>>)), PsbtOf(ExternalTx(<<OwnerKey, OtherKey>>)),
          PsbtOf(BareTx(<<OwnerKey>>, FALSE)),
          PsbtOf(BareTx(<<OwnerKey, OwnerKey>>, FALSE)),
          PsbtOf(BareTx(<<OwnerKey, OwnerKey>>, TRUE))}

(***************************************************************************)
(* State machine.                                                          *)
(***************************************************************************)
NoPSBT == [present |-> FALSE, tx |-> NoTx, by |-> "", fee |-> 0]

\* hex.encode(tx.toPSBT()): the PSBT the caller receives from a build.
Returned(by, res) ==
    IF res.ok THEN [present |-> TRUE, tx |-> res.tx, by |-> by, fee |-> res.fee]
    ELSE NoPSBT

Init ==
    /\ call = [op |-> "init", params |-> <<>>, res |-> Pass]
    /\ held = NoPSBT
    /\ config = NewCharmsWallet(NoConfig)
    /\ pending = None

\* The builders keep no state between calls: a behaviour is one build by a
\* fresh caller, followed by a signing call made on the PSBT it returned, or
\* a signing call alone.
\* Both builders are async functions without an await: a call runs to its
\* return or throw in one step.
CreateMiningTransaction ==
    /\ call.op = "init"
    /\ UNCHANGED <<config, pending>>
    /\ \E this \in BuilderPool,
       utxo \in MiningUtxoPool, hash \in HashPool, nonce \in NoncePool,
       changeAddress \in ChangeAddressPool, feeRate \in FeeRatePool,
       network \in NetworkPool :
        LET params == [utxo |-> utxo, miningData |-> [hash |-> hash, nonce |-> nonce],
                       changeAddress |-> changeAddress, network |-> network,
                       feeRate |-> feeRate]
            res == createMiningTransaction(this, params)
        IN /\ call' = [op |-> "createMiningTransaction", this |-> this,
                       params |-> params,
                       added |-> MiningTxAdded(this, params), res |-> res]
           /\ held' = Returned("mining", res)

CreateSimpleTransaction ==
    /\ call.op = "init"
    /\ UNCHANGED <<config, pending>>
    /\ \E this \in BuilderPool,
       utxos \in SeqsUpTo(SimpleUtxoPool, MaxUtxos),
       outputs \in SeqsUpTo(OutputPool, MaxOutputs),
       changeAddress \in ChangeAddressPool, feeRate \in SimpleFeeRatePool,
       network \in SimpleNetworkPool :
        LET params == [utxos |-> utxos, outputs |-> outputs,
                       changeAddress |-> changeAddress, network |-> network,
                       feeRate |-> feeRate]
            res == createSimpleTransaction(this, params)
        IN /\ call' = [op |-> "createSimpleTransaction", this |-> this,
                       params |-> params,
                       added |-> SimpleTxAdded(this, params), res |-> res]
           /\ held' = Returned("simple", res)

BuildOps == {"createMiningTransaction", "createSimpleTransaction"}

\* The signers a call is made on: new TransactionSigner() or
\* new TransactionSigner('regtest').
SignerPool == {TransactionSigner(None), TransactionSigner(Some("regtest"))}

\* A signing call that is suspended at an await: its method, receiver and
\* arguments.
Suspended(op, this, params) == Some([op |-> op, this |-> this, params |-> params])

\* TransactionSigner.signPSBT gets to "await this.deriveTaprootKeys" when
\* validateSigningInputs, hex.decode and fromPSBT have not thrown; a throw
\* before it is caught and the call returns its failure at once.
SignerSignPSBTAwaits(psbtHex, utxo, mnemonic) ==
    SignerValidateSigningInputs(psbtHex, utxo, mnemonic) = "" /\ psbtHex.kind = "psbt"

\* What TransactionSigner.signPSBT returns.
SignerSignPSBTReturn(this, params) ==
    [op |-> "TransactionSigner.signPSBT", this |-> this, params |-> params,
     attached |-> signerWitnessAttached(this, params.psbtHex, params.utxo,
                                        params.mnemonic),
     res |-> signerSignPSBT(this, params.psbtHex, params.utxo, params.mnemonic)]

\* signPSBT is called and runs up to its await, or to its return when it
\* fails before the await.
SignerSignPSBT ==
    /\ call.op = "init" \/ (call.op \in BuildOps /\ held.present)
    /\ pending = None
    /\ \E this \in SignerPool,
       psbtHex \in PsbtPool(held), utxo \in SignUtxoPool, mnemonic \in MnemonicPool :
        LET params == [psbtHex |-> psbtHex, utxo |-> utxo, mnemonic |-> mnemonic]
        IN IF SignerSignPSBTAwaits(psbtHex, utxo, mnemonic)
           THEN /\ pending' = Suspended("TransactionSigner.signPSBT", this, params)
                /\ call' = [op |-> "TransactionSigner.signPSBT: await",
                            this |-> this, params |-> params, res |-> Pass]
           ELSE /\ pending' = None
                /\ call' = SignerSignPSBTReturn(this, params)
    /\ UNCHANGED <<held, config>>

\* The continuation of signPSBT after deriveTaprootKeys has settled.
SignerSignPSBTResume ==
    /\ pending # None
    /\ Val(pending).op = "TransactionSigner.signPSBT"
    /\ call' = SignerSignPSBTReturn(Val(pending).this, Val(pending).params)
    /\ pending' = None
    /\ UNCHANGED <<held, config>>

\* AddressWallet.signPSBT has no await: it runs to its return in one step.
AddressWalletSignPSBT ==
    /\ call.op = "init" \/ (call.op \in BuildOps /\ held.present)
    /\ pending = None
    /\ \E wallet \in WalletPool, psbtHex \in PsbtPool(held), utxo \in SignUtxoPool :
        call' = [op |-> "AddressWallet.signPSBT",
                 params |-> [wallet |-> wallet, psbtHex |-> psbtHex, utxo |-> utxo],
                 attached |-> walletWitnessAttached(wallet, psbtHex, utxo),
                 res |-> walletSignPSBT(wallet, psbtHex, utxo)]
    /\ UNCHANGED <<held, config, pending>>

SignOps == {"TransactionSigner.signPSBT", "AddressWallet.signPSBT"}

\* signTransaction awaits signPSBT and turns its failure into a throw; the
\* call keeps what signPSBT reported in "signed".  The call suspends at
\* "await this.signPSBT(...)" whatever its arguments; signPSBT runs, with its
\* own await, while the call is suspended.
SignerSignTransaction ==
    /\ call.op = "init" \/ (call.op \in BuildOps /\ held.present)
    /\ pending = None
    /\ \E this \in SignerPool,
       psbtHex \in PsbtPool(held), utxo \in SignUtxoPool, mnemonic \in MnemonicPool :
        LET params == [psbtHex |-> psbtHex, utxo |-> utxo, mnemonic |-> mnemonic]
        IN /\ pending' = Suspended("TransactionSigner.signTransaction", this, params)
           /\ call' = [op |-> "TransactionSigner.signTransaction: await",
                       this |-> this, params |-> params, res |-> Pass]
    /\ UNCHANGED <<held, config>>

SignerSignTransactionResume ==
    /\ pending # None
    /\ Val(pending).op = "TransactionSigner.signTransaction"
    /\ LET this == Val(pending).this
           params == Val(pending).params
           signed == signerSignPSBT(this, params.psbtHex, params.utxo, params.mnemonic)
       IN call' = [op |-> "TransactionSigner.signTransaction",
                   this |-> this, params |-> params,
                   attached |-> signerWitnessAttached(this, params.psbtHex,
                                                      params.utxo, params.mnemonic),
                   signed |-> signed,
                   res |-> signTransaction(signed)]
    /\ pending' = None
    /\ UNCHANGED <<held, config>>

AddressWalletSignTransaction ==
    /\ call.op = "init" \/ (call.op \in BuildOps /\ held.present)
    /\ pending = None
    /\ \E wallet \in WalletPool, psbtHex \in PsbtPool(held), utxo \in SignUtxoPool :
        LET params == [wallet |-> wallet, psbtHex |-> psbtHex, utxo |-> utxo]
        IN /\ pending' = Suspended("AddressWallet.signTransaction", wallet, params)
           /\ call' = [op |-> "AddressWallet.signTransaction: await",
                       params |-> params, res |-> Pass]
    /\ UNCHANGED <<held, config>>

AddressWalletSignTransactionResume ==
    /\ pending # None
    /\ Val(pending).op = "AddressWallet.signTransaction"
    /\ LET wallet == Val(pending).this
           params == Val(pending).params
           signed == walletSignPSBT(wallet, params.psbtHex, params.utxo)
       IN call' = [op |-> "AddressWallet.signTransaction", params |-> params,
                   attached |-> walletWitnessAttached(wallet, params.psbtHex,
                                                      params.utxo),
                   signed |-> signed,
                   res |-> signTransaction(signed)]
    /\ pending' = None
    /\ UNCHANGED <<held, config>>

SignTransactionOps == {"TransactionSigner.signTransaction", "AddressWallet.signTransaction"}

Next ==
    \/ CreateMiningTransaction
    \/ CreateSimpleTransaction
    \/ SignerSignPSBT
    \/ SignerSignPSBTResume
    \/ AddressWalletSignPSBT
    \/ SignerSignTransaction
    \/ SignerSignTransactionResume
    \/ AddressWalletSignTransaction
    \/ AddressWalletSignTransactionResume

Spec == Init /\ [][Next]_vars

(***************************************************************************)
(* CharmsWallet and the AddressWallet constructor: the calls keep no state *)
(* and may follow one another in any order.  An async method takes two     *)
(* steps, its call up to the await and its continuation.                   *)
(***************************************************************************)
\* undefined and word counts around the supported ones.
WordCountPool == {None} \cup {Some(n) : n \in {0, 11, 12, 13, 15, 18, 21, 24, 25}}

ValidMnemonics == {M_ABOUT, M_YELLOW}

\* The valid mnemonics, the empty string, twelve words with a wrong checksum,
\* nine words that are not in the word list, thirteen words.
WalletMnemonicPool ==
    ValidMnemonics \cup
        {Mnemonic("", 0),
         Mnemonic("abandon abandon abandon abandon abandon abandon abandon abandon abandon abandon abandon abandon", 12),
         Mnemonic("invalid mnemonic phrase that should fail validation test", 9),
         Mnemonic("thirteen", 13)}

Networks == {"mainnet", "testnet", "testnet4"}

IndexPool == (0 - 1)..MaxIndex

\* The private keys getPrivateKey returns.
PrivateKeyPool ==
    {AddressKey(m, i).privateKey : m \in ValidMnemonics, i \in 0..MaxIndex}

\* Address texts: those the wallet generates, the mock addresses of
\* fromPrivateKey, a SegWit and a legacy address of each kind, a Taproot
\* address in upper case with an excluded letter, and the empty string.
AddressTextPool ==
    {P2trAddress(Slice1(AddressKey(m, i).publicKey), hrp) :
        m \in ValidMnemonics, i \in 0..MaxIndex, hrp \in {"bc", "tb"}}
    \cup {MockAddress(k, n) : k \in PrivateKeyPool, n \in {"mainnet", "testnet"}}
    \cup {<<"t", "b", "1", "q">> \o [i \in 1..38 |-> "w"],
          <<"b", "c", "1", "q">> \o [i \in 1..38 |-> "w"],
          <<"1">> \o [i \in 1..33 |-> "A"],
          <<"m">> \o [i \in 1..33 |-> "A"],
          <<"t", "b", "1", "p">> \o [i \in 1..58 |-> "O"],
          <<>>}

\* The derivation paths deriveTaprootKeys of the signer is called with:
\* the default, "M", "m/0", "86" and the empty string.
PathPool ==
    {DEFAULT_DERIVATION_PATH, <<"M">>, <<"m", "/", "0">>, <<"8", "6">>, <<>>}

\* generateAddress, getPrivateKey and getAddressData get to
\* "await mnemonicToSeed(mnemonic)" when validateMnemonic accepts the
\* mnemonic; the ValidationError thrown before it is caught and rethrown at
\* once.
DerivationAwaits(mnemonic) == Bip39Valid(mnemonic)

GenerateMnemonic ==
    /\ pending = None
    /\ \E wordCount \in WordCountPool :
        call' = [op |-> "generateMnemonic", params |-> [wordCount |-> wordCount],
                 res |-> generateMnemonic(wordCount)]
    /\ UNCHANGED <<held, config, pending>>

ValidateMnemonic ==
    /\ pending = None
    /\ \E mnemonic \in WalletMnemonicPool :
        call' = [op |-> "validateMnemonic", params |-> [mnemonic |-> mnemonic],
                 res |-> validateMnemonic(mnemonic)]
    /\ UNCHANGED <<held, config, pending>>

\* A static derivation method is called and runs up to its await, or to its
\* throw when the mnemonic is refused.
GenerateAddress ==
    /\ pending = None
    /\ \E mnemonic \in WalletMnemonicPool, network \in Networks, index \in IndexPool :
        LET params == [mnemonic |-> mnemonic, network |-> network, index |-> index]
        IN IF DerivationAwaits(mnemonic)
           THEN /\ pending' = Suspended("generateAddress", <<>>, params)
                /\ call' = [op |-> "generateAddress: await", params |-> params,
                            res |-> Pass]
           ELSE /\ pending' = None
                /\ call' = [op |-> "generateAddress", params |-> params,
                            res |-> generateAddress(mnemonic, network, index)]
    /\ UNCHANGED <<held, config>>

\* The continuation after mnemonicToSeed has settled.
GenerateAddressResume ==
    /\ pending # None
    /\ Val(pending).op = "generateAddress"
    /\ LET params == Val(pending).params
       IN call' = [op |-> "generateAddress", params |-> params,
                   res |-> generateAddress(params.mnemonic, params.network,
                                           params.index)]
    /\ pending' = None
    /\ UNCHANGED <<held, config>>

GetPrivateKey ==
    /\ pending = None
    /\ \E mnemonic \in WalletMnemonicPool, network \in Networks, index \in IndexPool :
        LET params == [mnemonic |-> mnemonic, network |-> network, index |-> index]
        IN IF DerivationAwaits(mnemonic)
           THEN /\ pending' = Suspended("getPrivateKey", <<>>, params)
                /\ call' = [op |-> "getPrivateKey: await", params |-> params,
                            res |-> Pass]
           ELSE /\ pending' = None
                /\ call' = [op |-> "getPrivateKey", params |-> params,
                            res |-> getPrivateKey(mnemonic, network, index)]
    /\ UNCHANGED <<held, config>>

GetPrivateKeyResume ==
    /\ pending # None
    /\ Val(pending).op = "getPrivateKey"
    /\ LET params == Val(pending).params
       IN call' = [op |-> "getPrivateKey", params |-> params,
                   res |-> getPrivateKey(params.mnemonic, params.network,
                                         params.index)]
    /\ pending' = None
    /\ UNCHANGED <<held, config>>

GetAddressData ==
    /\ pending = None
    /\ \E mnemonic \in WalletMnemonicPool, network \in Networks, index \in IndexPool :
        LET params == [mnemonic |-> mnemonic, network |-> network, index |-> index]
        IN IF DerivationAwaits(mnemonic)
           THEN /\ pending' = Suspended("getAddressData", <<>>, params)
                /\ call' = [op |-> "getAddressData: await", params |-> params,
                            res |-> Pass]
           ELSE /\ pending' = None
                /\ call' = [op |-> "getAddressData", params |-> params,
                            res |-> getAddressData(mnemonic, network, index)]
    /\ UNCHANGED <<held, config>>

GetAddressDataResume ==
    /\ pending # None
    /\ Val(pending).op = "getAddressData"
    /\ LET params == Val(pending).params
       IN call' = [op |-> "getAddressData", params |-> params,
                   res |-> getAddressData(params.mnemonic, params.network,
                                          params.index)]
    /\ pending' = None
    /\ UNCHANGED <<held, config>>

FromPrivateKey ==
    /\ pending = None
    /\ \E privateKey \in PrivateKeyPool, network \in Networks :
        call' = [op |-> "fromPrivateKey",
                 params |-> [privateKey |-> privateKey, network |-> network],
                 res |-> [ok |-> TRUE, wallet |-> fromPrivateKey(privateKey, network)]]
    /\ UNCHANGED <<held, config, pending>>

\* new AddressWallet(privateKey, network) without an address.
ConstructAddressWallet ==
    /\ pending = None
    /\ \E privateKey \in PrivateKeyPool, network \in Networks :
        call' = [op |-> "new AddressWallet",
                 params |-> [privateKey |-> privateKey, network |-> network],
                 res |-> NewAddressWallet(privateKey, network, None)]
    /\ UNCHANGED <<held, config, pending>>

ValidateAddress ==
    /\ pending = None
    /\ \E network \in Networks, address \in AddressTextPool :
        call' = [op |-> "validateAddress",
                 params |-> [network |-> network, address |-> address],
                 res |-> validateAddress(network, address)]
    /\ UNCHANGED <<held, config, pending>>

\* new TransactionSigner(network).deriveTaprootKeys(mnemonic, derivationPath,
\* index): the call suspends at "await mnemonicToSeed(mnemonic)", its first
\* statement, whatever its arguments.
SignerDeriveTaprootKeysCall ==
    /\ pending = None
    /\ \E mnemonic \in WalletMnemonicPool, network \in Networks, index \in IndexPool,
       derivationPath \in PathPool :
        LET params == [mnemonic |-> mnemonic, network |-> network, index |-> index,
                       derivationPath |-> derivationPath]
        IN /\ pending' = Suspended("TransactionSigner.deriveTaprootKeys",
                                   TransactionSigner(Some(network)), params)
           /\ call' = [op |-> "TransactionSigner.deriveTaprootKeys: await",
                       params |-> params, res |-> Pass]
    /\ UNCHANGED <<held, config>>

SignerDeriveTaprootKeysResume ==
    /\ pending # None
    /\ Val(pending).op = "TransactionSigner.deriveTaprootKeys"
    /\ LET params == Val(pending).params
       IN call' = [op |-> "TransactionSigner.deriveTaprootKeys", params |-> params,
                   res |-> signerDeriveTaprootKeys(params.network, params.mnemonic,
                                                   params.derivationPath,
                                                   params.index)]
    /\ pending' = None
    /\ UNCHANGED <<held, config>>

\* The caller awaits each call before it makes the next one.
WalletNext ==
    \/ GenerateMnemonic
    \/ ValidateMnemonic
    \/ GenerateAddress
    \/ GenerateAddressResume
    \/ GetPrivateKey
    \/ GetPrivateKeyResume
    \/ GetAddressData
    \/ GetAddressDataResume
    \/ FromPrivateKey
    \/ ConstructAddressWallet
    \/ ValidateAddress
    \/ SignerDeriveTaprootKeysCall
    \/ SignerDeriveTaprootKeysResume

WalletSpec == Init /\ [][WalletNext]_vars

(***************************************************************************)
(* One CharmsWallet instance: its synchronous methods, and                 *)
(* deriveTaprootKeys in two steps, its call up to await mnemonicToSeed and *)
(* its continuation, between which other calls may run.                    *)
(***************************************************************************)
\* What the instance is constructed with: nothing, or a network.
ConstructorPool ==
    {NoConfig} \cup
        {PartialConfig(Some(n), None, None) : n \in {"mainnet", "testnet4", "regtest"}}
        \cup {PartialConfig(Some(""), Some(<<>>), Some(""))}

\* Nothing, the derivation path "m/84'/0'/0'", an address type, a network.
UpdatePool ==
    {NoConfig,
     PartialConfig(None, Some(<<"m", "/", "8", "4", "'", "/", "0", "'", "/", "0", "'">>),
                   None),
     PartialConfig(None, None, Some("segwit"))}
        \cup {PartialConfig(Some(n), None, None) : n \in Networks}

\* A valid mnemonic, twelve words with a wrong checksum, the empty string
\* and thirteen words.
InstanceMnemonicPool == {M_ABOUT, M_ABANDON, Mnemonic("", 0), Mnemonic("thirteen", 13)}

InstanceAddressPool ==
    {P2trAddress(Slice1(AddressKey(M_ABOUT, 0).publicKey), hrp) : hrp \in {"bc", "tb"}}
        \cup {<<"1">> \o [i \in 1..33 |-> "A"], <<>>}

InstanceInit ==
    /\ call = [op |-> "init", params |-> <<>>, res |-> Pass]
    /\ held = NoPSBT
    /\ \E partial \in ConstructorPool : config = NewCharmsWallet(partial)
    /\ pending = None

GetConfig ==
    /\ call' = [op |-> "getConfig", params |-> <<>>, res |-> Returns(getConfig(config))]
    /\ UNCHANGED <<held, config, pending>>

UpdateConfig ==
    /\ \E updates \in UpdatePool :
        /\ config' = updateConfig(config, updates)
        /\ call' = [op |-> "updateConfig", params |-> [updates |-> updates],
                    res |-> Returns(<<>>)]
    /\ UNCHANGED <<held, pending>>

GetNetworkConfig ==
    /\ call' = [op |-> "getNetworkConfig", params |-> <<>>,
                res |-> getNetworkConfig(config)]
    /\ UNCHANGED <<held, config, pending>>

InstanceValidateAddress ==
    /\ \E address \in InstanceAddressPool :
        call' = [op |-> "validateAddress",
                 params |-> [network |-> config.network, address |-> address],
                 res |-> validateAddress(config.network, address)]
    /\ UNCHANGED <<held, config, pending>>

\* deriveTaprootKeys is called and suspends at await mnemonicToSeed(mnemonic);
\* "began" is the configuration the instance had at the call.
DeriveTaprootKeysCall ==
    /\ pending = None
    /\ \E mnemonic \in InstanceMnemonicPool, index \in IndexPool :
        /\ pending' = Some([mnemonic |-> mnemonic, index |-> index, began |-> config])
        /\ call' = [op |-> "deriveTaprootKeys: await",
                    params |-> [mnemonic |-> mnemonic, index |-> index], res |-> Pass]
    /\ UNCHANGED <<held, config>>

\* The continuation: the rest of the method runs with this.config as it is
\* now, and the promise settles.
DeriveTaprootKeysResume ==
    /\ pending # None
    /\ call' = [op |-> "deriveTaprootKeys",
                params |-> [mnemonic |-> Val(pending).mnemonic,
                            index |-> Val(pending).index],
                began |-> Val(pending).began,
                res |-> deriveTaprootKeys(config, Val(pending).mnemonic,
                                          Val(pending).index)]
    /\ pending' = None
    /\ UNCHANGED <<held, config>>

InstanceNext ==
    \/ GetConfig
    \/ UpdateConfig
    \/ GetNetworkConfig
    \/ InstanceValidateAddress
    \/ DeriveTaprootKeysCall
    \/ DeriveTaprootKeysResume

InstanceSpec == InstanceInit /\ [][InstanceNext]_vars

(***************************************************************************)
(* Properties.  P is the parameter object of the last call, R its outcome. *)
(***************************************************************************)
IsSimple == call.op = "createSimpleTransaction"
IsMining == call.op = "createMiningTransaction"
IsSign == call.op \in SignOps

\* The fee and change as the specification states them, for n inputs, m
\* caller outputs and the fee rate in force (10 when none is supplied).
RateInForce(feeRate) == IF feeRate = <<>> THEN 10 ELSE feeRate[1]

StatedSimpleFee(params) ==
    RateInForce(params.feeRate)
        * (10 + 57 * Len(params.utxos) + 43 * (Len(params.outputs) + 1))

StatedSimpleChange(params) ==
    SumAmounts(params.utxos) - SumAmounts(params.outputs) - StatedSimpleFee(params)

StatedMiningChange(params) ==
    params.utxo.amount - RateInForce(params.feeRate) * (10 + 57 * 1 + 43 * 2)

\* No address of the call makes createScriptPubKey throw while the inputs
\* and the caller's outputs are added.
SimpleScriptsBuilt(params) ==
    /\ \A i \in 1..Len(params.utxos) : createScriptPubKey(params.utxos[i].address).ok
    /\ \A i \in 1..Len(params.outputs) : createScriptPubKey(params.outputs[i].address).ok

\* The simple call passes validateSimpleParams and the network check.
SimpleValidated(this, params) ==
    /\ validateSimpleParams(params) = ""
    /\ getNetworkConfigOk(EffectiveNetwork(this, params.network))

\* C1: createSimpleTransaction with validated parameters and a negative
\* change never returns a PSBT; it fails with TransactionError (unless the
\* network or an address was refused first with ValidationError); no
\* returned transaction has a negative output.
C1_NegativeChangeFails ==
    IsSimple =>
        /\ (validateSimpleParams(call.params) = "" /\ StatedSimpleChange(call.params) < 0)
              => (~call.res.ok /\ ~held.present)
        /\ (/\ SimpleValidated(call.this, call.params)
            /\ SimpleScriptsBuilt(call.params)
            /\ StatedSimpleChange(call.params) < 0)
              => call.res.kind = "TransactionError"
        /\ call.res.ok =>
              \A i \in 1..Len(call.res.tx.outputs) : call.res.tx.outputs[i].amount >= 0

C1_Witness ==
    /\ IsSimple
    /\ validateSimpleParams(call.params) = ""
    /\ StatedSimpleChange(call.params) < 0
    /\ StatedSimpleChange(call.params) > 0 - 546
    /\ call.res.kind = "TransactionError"
    /\ call.res.msg = "Insufficient funds for transaction"

\* C2 (as claimed): on success a change output of exactly the change is
\* appended after the caller's outputs iff change >= 546; for
\* 0 <= change < 546 the transaction has exactly the caller's outputs.
C2_ChangeIffAtLeastDust ==
    (IsSimple /\ call.res.ok) =>
        LET m == Len(call.params.outputs)
            change == StatedSimpleChange(call.params)
            outs == call.res.tx.outputs
        IN /\ SubSeq(outs, 1, m) = CallerOutputs(call.params.outputs)
           /\ (change >= 546) <=> (Len(outs) = m + 1)
           /\ (change < 546) <=> (Len(outs) = m)
           /\ Len(outs) = m + 1 =>
                 outs[m + 1] = TxOutput(call.params.changeAddress, change)

\* C3: whenever createSimpleTransaction computes a fee it is
\* feeRate * (10 + 57 n + 43 (m + 1)), with feeRate 10 when none is supplied,
\* whether or not a change output is emitted; an emitted change output is
\* the inputs minus the outputs minus that fee.
C3_SimpleFeeFormula ==
    IsSimple =>
        /\ call.res.feeComputed => call.res.fee = StatedSimpleFee(call.params)
        /\ call.res.ok => call.res.feeComputed
        /\ (call.res.ok /\ Len(call.res.tx.outputs) > Len(call.params.outputs)) =>
              call.res.tx.outputs[Len(call.res.tx.outputs)].amount
                  = StatedSimpleChange(call.params)

C3_Witness ==
    /\ IsSimple
    /\ call.res.ok
    /\ call.params.feeRate = None
    /\ call.res.fee = 1530
    /\ Len(call.res.tx.outputs) = Len(call.params.outputs) + 1

\* Signing what the builders return: no signing call on the PSBT a builder
\* returned succeeds.  The builders set no tapInternalKey, so tx.sign signs
\* no input, and TransactionSigner fails earlier, in deriveTaprootKeys.
BuilderPsbtNeverSigned ==
    (IsSign /\ call.params.psbtHex = PsbtOf(held.tx)) => ~call.res.success

\* The mining call passes validateMiningParams and the network check.
MiningValidated(this, params) ==
    /\ validateMiningParams(params) = ""
    /\ getNetworkConfigOk(EffectiveNetwork(this, params.network))

\* Every parameter of the mining call other than the UTXO's amount is one the
\* builder accepts: a complete UTXO at an address it can make a script for,
\* a valid payload, a change address, a supported network.
MiningWellFormed(this, params) ==
    /\ validateMiningParams([params EXCEPT !.utxo.amount = MIN_UTXO_AMOUNT,
                                           !.feeRate = None]) = ""
    /\ getNetworkConfigOk(EffectiveNetwork(this, params.network))
    /\ InputsFailure(<<[params.utxo EXCEPT !.amount = MIN_UTXO_AMOUNT]>>) = ""
    /\ createMiningOpReturn(params.miningData).ok
    /\ createScriptPubKey(params.changeAddress).ok

\* C5 (as claimed): createMiningTransaction fails with TransactionError
\* whenever the change utxo.amount - fee is below 546 (stated here for calls
\* with a positive amount, a fee rate in 1..1000 and otherwise accepted
\* parameters).
C5_SubDustChangeIsTransactionError ==
    (/\ IsMining
     /\ MiningWellFormed(call.this, call.params)
     /\ call.params.utxo.amount > 0
     /\ RateInForce(call.params.feeRate) >= 1
     /\ RateInForce(call.params.feeRate) <= 1000
     /\ StatedMiningChange(call.params) < 546) =>
        (~call.res.ok /\ call.res.kind = "TransactionError")

\* C5 (amended): whenever the change is below 546 the call fails and returns
\* no PSBT: with ValidationError when parameter validation, the network check
\* or the script of the UTXO's address refuses the call first, with
\* TransactionError otherwise.
C5_SubDustChangeFails ==
    (IsMining /\ StatedMiningChange(call.params) < 546) =>
        /\ ~call.res.ok
        /\ ~held.present
        /\ call.res.kind \in {"ValidationError", "TransactionError"}
        /\ (call.res.kind = "ValidationError") <=>
              \/ ~MiningValidated(call.this, call.params)
              \/ /\ TxidDecodable(call.params.utxo.txid)
                 /\ ~createScriptPubKey(call.params.utxo.address).ok

C5_Witness ==
    /\ IsMining
    /\ MiningWellFormed(call.this, call.params)
    /\ validateMiningParams(call.params) = ""
    /\ StatedMiningChange(call.params) < 546
    /\ StatedMiningChange(call.params) >= 0
    /\ ~call.res.ok
    /\ call.res.kind = "TransactionError"

\* C6 (as claimed): createMiningTransaction, for parameters it accepts and a
\* change of at least 546, succeeds and returns exactly one input, the given
\* UTXO with its amount attached, and exactly two outputs in this order: a
\* zero-value OP_RETURN output carrying the payload (the opcode 0x6a and the
\* push of the payload), then a change output to changeAddress of
\* utxo.amount - feeRate * (10 + 57 + 86).
C6_MiningShape ==
    (/\ IsMining
     /\ MiningWellFormed(call.this, call.params)
     /\ validateMiningParams(call.params) = ""
     /\ StatedMiningChange(call.params) >= 546) =>
        LET tx == call.res.tx
            payload == HexDecode(CombinedHex(call.params.miningData))
        IN
        /\ call.res.ok
        /\ Len(tx.inputs) = 1
        /\ tx.inputs[1].txid = call.params.utxo.txid
        /\ Some(tx.inputs[1].index) = call.params.utxo.vout
        /\ tx.inputs[1].hasWitnessUtxo
        /\ tx.inputs[1].witnessUtxo.amount = call.params.utxo.amount
        /\ tx.inputs[1].witnessUtxo.script
              = createScriptPubKey(call.params.utxo.address).script
        /\ Len(tx.outputs) = 2
        /\ tx.outputs[1].amount = 0
        /\ tx.outputs[1].script.data
              = <<106>> \o (IF Len(payload) < 76 THEN <<Len(payload)>>
                            ELSE <<76, Len(payload)>>) \o payload
        /\ tx.outputs[2].script.type = "p2tr"
        /\ tx.outputs[2].script
              = createScriptPubKey(call.params.changeAddress).script
        /\ tx.outputs[2].amount = StatedMiningChange(call.params)

\* The bytes of a 4-byte big-endian integer below 2^31.
BigEndian4(m) ==
    <<m \div 16777216, (m \div 65536) % 256, (m \div 256) % 256, m % 256>>

\* C7 (as claimed): for a payload that passes validation the OP_RETURN data
\* createMiningTransaction builds (what createMiningOpReturn returns to it)
\* is exactly 20 bytes, the first 16 bytes of the hash followed by the nonce
\* as a 4-byte big-endian integer.
C7_OpReturnIs20Bytes ==
    (/\ IsMining
     /\ MiningValidated(call.this, call.params)
     /\ InputsFailure(<<call.params.utxo>>) = ""
     /\ createMiningOpReturn(call.params.miningData).ok) =>
        LET data == call.res.opReturn
            nonce == Val(call.params.miningData.nonce)
        IN /\ Len(data) = 20
           /\ SubSeq(data, 1, 16) = HexDecode(SubSeq(call.params.miningData.hash, 1, 32))
           /\ nonce.e = 0 => SubSeq(data, 17, 20) = BigEndian4(nonce.m)

\* The number of hex characters of the encoded payload: 32 of the hash and
\* the digits of the nonce, at least 8.
RECURSIVE CountDigits16(_)
CountDigits16(m) == IF m < 16 THEN 1 ELSE 1 + CountDigits16(m \div 16)

EncodedHexChars(miningData) ==
    LET nonce == Val(miningData.nonce)
        digits == IF nonce.m = 0 THEN 1 ELSE CountDigits16(nonce.m) + nonce.e
    IN 32 + (IF digits < 8 THEN 8 ELSE digits)

\* The call gets as far as createMiningOpReturn.
ReachesOpReturn(this, params) ==
    MiningValidated(this, params) /\ InputsFailure(<<params.utxo>>) = ""

\* C8: a payload whose encoded form is longer than 80 bytes is never
\* accepted, and is refused for its size when the call gets to encoding it;
\* a payload of 80 bytes or fewer is never refused for its size.
C8_OpReturnBound ==
    (IsMining /\ validateMiningParams(call.params) = "") =>
        /\ EncodedHexChars(call.params.miningData) > 2 * 80 => ~call.res.ok
        /\ ReachesOpReturn(call.this, call.params) =>
              ((call.res.msg = "OP_RETURN data too large")
                  <=> (EncodedHexChars(call.params.miningData) > 2 * 80))
        /\ ~ReachesOpReturn(call.this, call.params) =>
              call.res.msg # "OP_RETURN data too large"
        /\ Len(call.res.opReturn) <= 80

C8_Witness ==
    /\ IsMining
    /\ ReachesOpReturn(call.this, call.params)
    /\ EncodedHexChars(call.params.miningData) = 2 * 80
    /\ Len(call.res.opReturn) = 80
    /\ call.res.msg # "OP_RETURN data too large"

\* Every parameter of the simple call other than the fee rate is one the
\* builder accepts.
SimpleWellFormed(this, params) ==
    /\ validateSimpleParams([params EXCEPT !.feeRate = None]) = ""
    /\ getNetworkConfigOk(EffectiveNetwork(this, params.network))
    /\ InputsFailure(params.utxos) = ""
    /\ SimpleScriptsBuilt(params)
    /\ createScriptPubKey(params.changeAddress).ok

\* C9 (as claimed): both builders reject every supplied fee rate below 1 or
\* above 1000 with ValidationError, so every returned transaction was priced
\* with a fee rate in 1..1000 (stated here for calls whose other parameters
\* are accepted).
C9_FeeRateInRange ==
    (\/ IsSimple /\ SimpleWellFormed(call.this, call.params)
     \/ IsMining /\ MiningWellFormed(call.this, call.params)
                 /\ call.params.utxo.amount >= MIN_UTXO_AMOUNT) =>
        /\ (/\ call.params.feeRate # <<>>
            /\ (call.params.feeRate[1] < 1 \/ call.params.feeRate[1] > 1000))
              => (~call.res.ok /\ call.res.kind = "ValidationError")
        /\ call.res.ok =>
              (RateInForce(call.params.feeRate) >= 1
                  /\ RateInForce(call.params.feeRate) <= 1000)

\* C10 (as claimed): both builders reject with ValidationError any input
\* UTXO whose amount is below 1000: the mining builder its single UTXO, the
\* simple builder every UTXO of its list (stated here for calls whose other
\* parameters are accepted and whose inputs cover outputs and fee).
C10_MinUtxoAmount ==
    /\ (IsMining /\ call.params.utxo.amount < 1000)
          => (~call.res.ok /\ call.res.kind = "ValidationError")
    /\ (/\ IsSimple
        /\ SimpleWellFormed(call.this, call.params)
        /\ ~FeeRateRejected(call.params.feeRate)
        /\ StatedSimpleChange(call.params) >= 0
        /\ \E i \in 1..Len(call.params.utxos) : call.params.utxos[i].amount < 1000)
          => (~call.res.ok /\ call.res.kind = "ValidationError")

\* C11: createSimpleTransaction refuses with ValidationError, and returns no
\* PSBT for, every call with a caller output below 546 sat; in a returned
\* transaction every caller output keeps its amount, which is at least 546.
C11_DustOutputRejected ==
    IsSimple =>
        /\ (\E i \in 1..Len(call.params.outputs) : call.params.outputs[i].amount < 546)
              => (~call.res.ok /\ call.res.kind = "ValidationError" /\ ~held.present)
        /\ call.res.ok =>
              \A i \in 1..Len(call.params.outputs) :
                  /\ call.res.tx.outputs[i].amount = call.params.outputs[i].amount
                  /\ call.res.tx.outputs[i].amount >= 546

C11_Witness ==
    /\ IsSimple
    /\ \E i \in 1..Len(call.params.outputs) : call.params.outputs[i].amount = 545
    /\ \A i \in 1..Len(call.params.utxos) : ~InvalidUtxoFormat(call.params.utxos[i])
    /\ call.res.kind = "ValidationError"
    /\ call.res.msg = "Output amount below dust threshold"
    /\ ~held.present
\* C12: signPSBT of either signer returns a result that is a success with
\* txid, hex, size, vsize and fee all present, or a failure with an error
\* string and none of them; signTransaction throws TransactionError whenever
\* signPSBT failed and otherwise returns what signPSBT reported.
C12_SigningOutcome ==
    /\ IsSign =>
          /\ call.res.success \in BOOLEAN
          /\ call.res.success =>
                /\ IsSome(call.res.txid) /\ IsSome(call.res.hex)
                /\ IsSome(call.res.size) /\ IsSome(call.res.vsize)
                /\ IsSome(call.res.fee)
                /\ call.res.error = ""
          /\ ~call.res.success =>
                /\ call.res.error # ""
                /\ call.res.txid = None /\ call.res.hex = None
                /\ call.res.size = None /\ call.res.vsize = None
                /\ call.res.fee = None
    /\ call.op \in SignTransactionOps =>
          /\ ~call.signed.success =>
                /\ call.res.threw
                /\ call.res.kind = "TransactionError"
                /\ call.res.txid = None /\ call.res.hex = None
          /\ ~call.res.threw =>
                /\ call.signed.success
                /\ call.res.txid = call.signed.txid
                /\ call.res.hex = call.signed.hex
                /\ call.res.fee = Val(call.signed.fee)

C12_Witness ==
    /\ call.op = "AddressWallet.signPSBT"
    /\ call.res.success
    /\ call.res.hex = Some(<<"raw", call.params.psbtHex.tx>>)
    /\ call.res.fee = Some(1000)
\* C14 (as claimed): the AddressWallet made from a derived private key, by
\* fromPrivateKey or by new AddressWallet(key, network), reports the address,
\* the public key and the x-only public key getAddressData reports for the
\* same mnemonic, network and index.
C14_IsolatedSignerIdentity ==
    call.op \in {"fromPrivateKey", "new AddressWallet"} =>
        \A m \in ValidMnemonics, i \in 0..MaxIndex :
            call.params.privateKey = getPrivateKey(m, call.params.network, i).value =>
                LET data == getAddressData(m, call.params.network, i).value
                IN /\ call.res.ok
                   /\ call.res.wallet.address = data.address
                   /\ call.res.wallet.publicKey = data.publicKey
                   /\ call.res.wallet.xOnlyPubkey = data.xOnlyPubkey

IsGenerateMnemonic == call.op = "generateMnemonic"

\* The word count in force: DEFAULT_WORD_COUNT when none is given.
WordCountInForce == IF call.params.wordCount = <<>> THEN 12 ELSE call.params.wordCount[1]

\* C15 (as claimed): for a word count of 12, 15, 18, 21 or 24 (12 when none
\* is given) generateMnemonic returns a mnemonic of exactly that many words,
\* made from 128, 160, 192, 224 or 256 bits of entropy.
C15_WordCountHonoured ==
    (IsGenerateMnemonic /\ WordCountInForce \in {12, 15, 18, 21, 24}) =>
        /\ ~call.res.threw
        /\ call.res.value.words = WordCountInForce
        /\ call.res.value.entropyBits = 32 * (WordCountInForce \div 3)

\* C16 (as claimed): for every other word count generateMnemonic fails with
\* a ValidationError, whose code is VALIDATION_ERROR, and returns no mnemonic.
C16_UnsupportedIsValidationError ==
    (IsGenerateMnemonic /\ WordCountInForce \notin {12, 15, 18, 21, 24}) =>
        /\ call.res.threw
        /\ call.res.kind = "ValidationError"
        /\ ErrorCode(call.res.kind) = "VALIDATION_ERROR"
        /\ call.res.value = <<>>

\* C17: validateMnemonic returns {valid: true} without an error for a
\* mnemonic with a correct checksum and {valid: false} with a non-empty error
\* string for every other input; it throws for none.
C17_ValidateMnemonicTotal ==
    call.op = "validateMnemonic" =>
        /\ call.res.valid \in BOOLEAN
        /\ call.res.valid <=> call.params.mnemonic \in {M_ABOUT, M_YELLOW}
        /\ call.res.valid => call.res.error = ""
        /\ ~call.res.valid => call.res.error # ""

C17_Witness ==
    /\ call.op = "validateMnemonic"
    /\ call.params.mnemonic.id = "invalid mnemonic phrase that should fail validation test"
    /\ ~call.res.valid
    /\ call.res.error = "Invalid mnemonic phrase. Please check the words and try again."
\* C18: what getAddressData returns for (mnemonic, network, index) is what
\* the other derivations return for the same arguments: its privateKey is
\* getPrivateKey's, its address is generateAddress's, its xOnlyPubkey is its
\* publicKey without the first byte; the keys have 32, 33 and 32 bytes; and
\* the three calls fail on the same arguments.
C18_KeyMaterialConsistent ==
    call.op = "getAddressData" =>
        LET m == call.params.mnemonic
            n == call.params.network
            i == call.params.index
        IN /\ call.res.threw <=> getPrivateKey(m, n, i).threw
           /\ call.res.threw <=> generateAddress(m, n, i).threw
           /\ ~call.res.threw =>
                 /\ call.res.value.privateKey = getPrivateKey(m, n, i).value
                 /\ call.res.value.address = generateAddress(m, n, i).value
                 /\ call.res.value.xOnlyPubkey = Tail(call.res.value.publicKey)
                 /\ Len(call.res.value.privateKey) = 32
                 /\ Len(call.res.value.publicKey) = 33
                 /\ Len(call.res.value.xOnlyPubkey) = 32

C18_Witness ==
    /\ call.op = "getAddressData"
    /\ call.params.mnemonic = M_YELLOW
    /\ call.params.index = 1
    /\ ~call.res.threw
    /\ call.res.value.privateKey = getPrivateKey(M_YELLOW, "mainnet", 1).value
    /\ call.res.value.privateKey # getPrivateKey(M_YELLOW, "mainnet", 0).value
    /\ call.res.value.privateKey # getPrivateKey(M_ABOUT, "mainnet", 1).value

\* C19: an address generateAddress returns for a valid mnemonic, a network n
\* and an index is accepted by validateAddress of a wallet configured for n,
\* with network n and type p2tr.
C19_AddressRoundTrip ==
    call.op = "validateAddress" =>
        \A m \in ValidMnemonics, i \in 0..MaxIndex :
            call.params.address = generateAddress(m, call.params.network, i).value =>
                /\ call.res.valid
                /\ call.res.network = call.params.network
                /\ call.res.type = "p2tr"

C19_Witness ==
    /\ call.op = "validateAddress"
    /\ call.params.network = "testnet4"
    /\ call.params.address = generateAddress(M_ABOUT, "testnet4", 1).value
    /\ Len(call.params.address) = 62
    /\ call.res = [valid |-> TRUE, network |-> "testnet4", type |-> "p2tr", error |-> ""]

\* C20: for a valid mnemonic and a network, the addresses generateAddress
\* returns for two different indices of 0..MaxIndex differ.
C20_AddressesDistinct ==
    (call.op = "generateAddress" /\ ~call.res.threw) =>
        \A j \in 0..MaxIndex :
            j # call.params.index =>
                generateAddress(call.params.mnemonic, call.params.network, j).value
                    # call.res.value

C20_Witness ==
    /\ call.op = "generateAddress"
    /\ ~call.res.threw
    /\ call.params.index = MaxIndex
    /\ call.params.mnemonic = M_ABOUT
    /\ Len(call.res.value) = 62
\* The weight of the signed transaction: three times the serialization
\* without witnesses plus the full serialization.
Weight(tx) == 3 * BaseSize(tx) + RawSize(tx)

\* C21 (as claimed): the vsize of a signed transaction is its weight divided
\* by 4, rounded up, and its size is the byte length of the raw transaction.
C21_VsizeIsWeightOver4 ==
    (call.op \in SignOps /\ call.res.success) =>
        LET tx == call.params.psbtHex.tx
        IN /\ call.res.size = Some(RawSize(tx))
           /\ call.res.vsize = Some((Weight(tx) + 3) \div 4)
\* C22 (as claimed): no public operation of a CharmsWallet changes the
\* network of its configuration, which getConfig, validateAddress and
\* getNetworkConfig read: it stays the one the constructor set.
C22_NetworkFixedAtConstruction == [][config'.network = config.network]_vars

\* C23 (as claimed): a deriveTaprootKeys call interleaved with other calls at
\* its await settles as it does when run alone from the state it began in.
C23_InterleavingInvisible ==
    call.op = "deriveTaprootKeys" =>
        call.res = deriveTaprootKeys(call.began, call.params.mnemonic,
                                     call.params.index)
\* The checks of the builders that reject a call: parameter validation, the
\* OP_RETURN size, insufficient funds and a change below the dust threshold.
RejectedByCheck ==
    /\ call.op \in BuildOps
    /\ ~call.res.ok
    /\ \/ call.res.kind = "ValidationError"
       \/ call.res.msg \in {"OP_RETURN data too large",
                            "Insufficient funds for transaction",
                            "Change amount below dust threshold"}

\* C24 (as claimed): a build that one of its checks rejects has added no
\* input and no output to the transaction under construction.
C24_ChecksBeforeConstruction ==
    RejectedByCheck => call.added = Added(0, 0)
\* C25 (as claimed): when signPSBT has run updateWitnessUtxo, every input of
\* the parsed transaction has a witnessUtxo: an input that had one keeps it,
\* an input that had none has the caller's UTXO amount.
C25_EveryInputHasWitnessUtxo ==
    (call.op \in SignOps \cup SignTransactionOps /\ call.attached.reached) =>
        LET before == call.params.psbtHex.tx.inputs
            after == call.attached.tx.inputs
        IN /\ Len(after) = Len(before)
           /\ \A i \in 1..Len(before) :
                /\ after[i].hasWitnessUtxo
                /\ before[i].hasWitnessUtxo => after[i] = before[i]
                /\ ~before[i].hasWitnessUtxo =>
                      after[i].witnessUtxo.amount = call.params.utxo.amount
\* C26 (as claimed): for a valid mnemonic and an index, TransactionSigner
\* with the default derivation path derives the private key and the address
\* getAddressData returns for that mnemonic, network and index.
C26_SignerDerivesOwnerKeys ==
    (/\ call.op = "TransactionSigner.deriveTaprootKeys"
     /\ call.params.derivationPath = DEFAULT_DERIVATION_PATH
     /\ Bip39Valid(call.params.mnemonic)
     /\ DeriveChildOk(call.params.index)) =>
        LET data == getAddressData(call.params.mnemonic, call.params.network,
                                   call.params.index)
        IN /\ ~call.res.threw
           /\ call.res.value.privateKey = data.value.privateKey
           /\ call.res.value.address = data.value.address
\* C27 (as claimed): the input a builder makes for a UTXO at the Taproot
\* address of a key has the P2TR script of that key as its previous-output
\* script, and the AddressWallet of that key and address signs the
\* one-input transaction built.
C27_BuilderAndSignerAgree ==
    \A k \in {OwnerKey, OtherKey} :
        /\ (IsSimple /\ call.res.ok) =>
              \A i \in 1..Len(call.params.utxos) :
                  call.params.utxos[i].address = TaprootAddr(k) =>
                      call.res.tx.inputs[i].witnessUtxo.script
                          = P2trScript(PubSchnorr(k))
        /\ (/\ call.op = "AddressWallet.signPSBT"
            /\ held.by = "simple"
            /\ Len(held.tx.inputs) = 1
            /\ call.params.psbtHex = PsbtOf(held.tx)
            /\ held.tx.inputs[1].witnessUtxo.amount = call.params.utxo.amount
            /\ call.params.wallet = Wallet(k, TaprootAddr(k))
            /\ call.params.utxo.address = TaprootAddr(k)) =>
              call.res.success
WalletSignOps == {"AddressWallet.signPSBT", "AddressWallet.signTransaction"}

\* C28: AddressWallet.signPSBT called with a UTXO whose address is not the
\* wallet's returns success=false without txid or hex and never reaches the
\* parsing of the PSBT (the mismatch is the error reported even for a PSBT
\* that would not parse); signTransaction throws TransactionError.
C28_ForeignUtxoRefused ==
    (call.op \in WalletSignOps
        /\ call.params.utxo.address # call.params.wallet.address) =>
        LET result == IF call.op = "AddressWallet.signPSBT" THEN call.res
                      ELSE call.signed
        IN /\ ~result.success
           /\ result.txid = None /\ result.hex = None
           /\ ~call.attached.reached
           /\ (call.params.psbtHex.kind \in {"psbt", "garbage"}
                  /\ ~InvalidUtxoFormat(call.params.utxo)) =>
                 result.error = "UTXO address does not match wallet address"
           /\ call.op = "AddressWallet.signTransaction" =>
                 call.res.threw /\ call.res.kind = "TransactionError"

\* A wallet that holds the key of the PSBT's input, constructed with an
\* address or without, is handed a UTXO at another address.
C28_Witness ==
    /\ call.op = "AddressWallet.signTransaction"
    /\ call.params.wallet \in {Wallet(OwnerKey, Owner), GeneratedWallet(OwnerKey)}
    /\ call.params.psbtHex = PsbtOf(ExternalTx(<<OwnerKey>>))
    /\ call.params.utxo = Utxo("T1", Some(0), 5000, Other)
    /\ call.res.threw
    /\ call.res.msg = "UTXO address does not match wallet address"
\* C29 (as claimed): deriveTaprootKeys of a CharmsWallet fails, returning no
\* key and no address, for every mnemonic validateMnemonic rejects.
C29_InvalidMnemonicDerivesNothing ==
    (call.op = "deriveTaprootKeys"
        /\ ~validateMnemonic(call.params.mnemonic).valid) =>
        call.res.threw /\ call.res.value = <<>>
\* Some pattern of the network's own matches the address.
MatchesOwnPattern(network, address) ==
    IF network = "mainnet"
    THEN MAINNET_P2TR(address) \/ MAINNET_P2WPKH(address) \/ LEGACY(address)
    ELSE TESTNET_P2TR(address) \/ TESTNET_P2WPKH(address) \/ TESTNET_LEGACY(address)

\* C30: validateAddress returns a result and never throws; a valid result
\* names the wallet's configured network; an address a mainnet wallet accepts
\* is rejected by the testnet and testnet4 wallets and the other way round;
\* an address that matches no pattern of the wallet's network is rejected
\* with an error string.
C30_NetworkSeparation ==
    call.op = "validateAddress" =>
        LET network == call.params.network
            address == call.params.address
            others == IF network = "mainnet" THEN {"testnet", "testnet4"}
                      ELSE {"mainnet"}
        IN /\ call.res.valid \in BOOLEAN
           /\ call.res.valid =>
                 /\ call.res.network = network
                 /\ call.res.error = ""
                 /\ \A other \in others : ~validateAddress(other, address).valid
           /\ ~MatchesOwnPattern(network, address) =>
                 ~call.res.valid /\ call.res.error # ""

\* A testnet4 wallet accepts a legacy testnet address, which a mainnet wallet
\* rejects.
C30_Witness ==
    /\ call.op = "validateAddress"
    /\ call.params.network = "testnet4"
    /\ call.params.address = <<"m">> \o [i \in 1..33 |-> "A"]
    /\ call.res.valid
    /\ call.res.network = "testnet4"
    /\ call.res.type = "legacy"
    /\ ~validateAddress("mainnet", call.params.address).valid
====
